---- MODULE Spec2Model ----
(***************************************************************************)
(* A model of the lesson generator: the retrying content-generation client *)
(* (geminiService.ts) and the generateSlides pipeline of the App component.*)
(*                                                                         *)
(* Text is a sequence of one-character strings, so that trim, split and    *)
(* filter are computed character by character as the JavaScript does.      *)
(***************************************************************************)
EXTENDS Integers, Sequences, FiniteSets, TLC

(***************************************************************************)
(* Bounds of the model.                                                    *)
(***************************************************************************)
\* longest input text enumerated for the splitter
MaxLen == 4
\* longest array the provider answers a segmentation request with
MaxSegments == 2

(***************************************************************************)
(* Program constants.                                                      *)
(***************************************************************************)
\* withRetry(asyncFn, maxRetries = 3, initialDelay = 2000)
MaxRetries == 3
InitialDelay == 2000
\* setTimeout(resolve, 2000) between the units of a stage
PaceDelay == 2000
\* line.trim().length > 2
MinFragment == 2
\* handleDownloadVideo, in tenths of a second: the duration of a slide without
\* (long enough) narration, the padding after a narration, the shortest
\* narration that is padded, and the duration of a transition
DefaultDuration == 30
Padding == 5
MinNarration == 5
TransitionDuration == 0

Null == "null"

(***************************************************************************)
(* Characters and strings.                                                 *)
(***************************************************************************)
NL == "\n"
Alphabet == {"a", " ", ".", NL}

\* the characters String.prototype.trim removes
IsSpace(c) == c \in {" ", NL, "\t", "\r"}
\* (mutant) commas separate too
IsSepWithComma(c) == c \in {NL, ".", ","}

\* the character class [\n.] of the fallback splitter
IsSep(c) == c \in {NL, "."}

RECURSIVE TrimStart(_)
TrimStart(s) ==
  IF s = <<>> THEN <<>>
  ELSE IF IsSpace(Head(s)) THEN TrimStart(Tail(s)) ELSE s

RECURSIVE TrimEnd(_)
TrimEnd(s) ==
  IF s = <<>> THEN <<>>
  ELSE IF IsSpace(s[Len(s)]) THEN TrimEnd(SubSeq(s, 1, Len(s) - 1)) ELSE s

\* String.prototype.trim
Trim(s) == TrimEnd(TrimStart(s))

\* text.split(/[\n.]+/): every maximal run of separators is one match; the
\* fragments are the stretches of text before, between and after the matches
\* (possibly empty), in order.
Split(text) ==
  LET n == Len(text)
      RunStarts == {k \in 1..n : IsSep(text[k]) /\ (k = 1 \/ ~IsSep(text[k - 1]))}
      RunEnds == {k \in 1..n : IsSep(text[k]) /\ (k = n \/ ~IsSep(text[k + 1]))}
      Nth(S, j) == CHOOSE k \in S : Cardinality({e \in S : e < k}) = j - 1
      From(j) == IF j = 1 THEN 1 ELSE Nth(RunEnds, j - 1) + 1
      To(j) == IF j = Cardinality(RunEnds) + 1 THEN n ELSE Nth(RunStarts, j) - 1
  IN [j \in 1..(Cardinality(RunEnds) + 1) |-> SubSeq(text, From(j), To(j))]

\* (mutant) the fragment is measured untrimmed
KeepFragmentUntrimmed(line) == Len(line) > MinFragment

\* filter(line => line.trim().length > 2)
KeepFragment(line) == Len(Trim(line)) > MinFragment

\* the catch branch of splitTextIntoSentences
FallbackSplit(text) == SelectSeq(Split(text), KeepFragment)

\* all texts over the alphabet of length at most n
RECURSIVE TextsUpTo(_)
TextsUpTo(n) ==
  IF n = 0 THEN {<<>>}
  ELSE LET shorter == TextsUpTo(n - 1)
       IN shorter \cup {Append(t, c) : t \in {u \in shorter : Len(u) = n - 1}, c \in Alphabet}


(***************************************************************************)
(* Results of calls: a value returned, or an exception thrown.             *)
(***************************************************************************)
Ret(v) == [thrown |-> FALSE, val |-> v]
Throw == [thrown |-> TRUE, val |-> Null]

\* the outcome of withRetry: the response of the attempt that succeeded, or
\* the error of the last attempt rethrown
Resolved(resp) == [thrown |-> FALSE, resp |-> resp]
Rejected == [thrown |-> TRUE, resp |-> Null]

(***************************************************************************)
(* Provider responses.                                                     *)
(***************************************************************************)
NoText == [kind |-> "notext"]
BadJson == [kind |-> "badjson"]
Json(isArray, items) == [kind |-> "json", isArray |-> isArray, items |-> items]
Str(t) == [isString |-> TRUE, str |-> t]
NotStr == [isString |-> FALSE, str |-> <<>>]
TextResp(t) == [kind |-> "text", text |-> t]
TextPart == [inlineData |-> Null]
DataPart(d) == [inlineData |-> d]

RECURSIVE SeqsUpTo(_, _)
SeqsUpTo(S, n) ==
  IF n = 0 THEN {<<>>}
  ELSE LET shorter == SeqsUpTo(S, n - 1)
       IN shorter \cup {Append(q, x) : q \in {u \in shorter : Len(u) = n - 1}, x \in S}

\* the k-th sentence of the lesson texts of the model
Digit(k) == <<"1", "2", "3", "4", "5", "6", "7", "8", "9">>[k]
Line(k) == <<"n", "o", Digit(k)>>
LineA == <<"a", "b", "c">>

\* answers to a segmentation request, as enumerated for the splitter
SegItems == {Str(LineA), Str(<<"a">>), Str(<<" ">>), Str(<<>>), NotStr}
SegResponses ==
  {NoText, BadJson, Json(FALSE, <<>>)} \cup {Json(TRUE, q) : q \in SeqsUpTo(SegItems, MaxSegments)}

\* answers to a segmentation request, as enumerated for the pipeline
\* (arrays of at most MaxSegments entries, the k-th either sentence k or blank)
PipeSegArrays ==
  UNION {{q \in [1..n -> {Str(Line(k)) : k \in 1..n} \cup {Str(<<" ">>)}] :
            \A k \in 1..n : q[k] \in {Str(Line(k)), Str(<<" ">>)}} : n \in 0..MaxSegments}
PipeSegResponses == {BadJson} \cup {Json(TRUE, q) : q \in PipeSegArrays}

TranslateResponses == {TextResp(<<" ", "h">>), NoText}
ExplainResponses == {TextResp(<<"s", NL>>), TextResp(<<" ">>), NoText}
ImageResponses == {<<>>, <<TextPart>>, <<TextPart, DataPart("img")>>}
SpeechResponses == {<<>>, <<TextPart>>, <<DataPart("pcm")>>}

\* well-formed answers: an array of up to MaxSegments sentences (or one that
\* does not parse), a translation, an explanation, an image and a narration
FirstTryResponses(fn) ==
  CASE fn = "segment" ->
         {BadJson} \cup {Json(TRUE, [k \in 1..n |-> Str(Line(k))]) : n \in 0..MaxSegments}
    [] fn = "translate" -> {TextResp(<<" ", "h">>)}
    [] fn = "explain" -> {TextResp(<<"s", NL>>)}
    [] fn = "image" -> {<<TextPart, DataPart("img")>>}
    [] fn = "speech" -> {<<DataPart("pcm")>>}

Responses(fn) ==
  CASE fn = "segment" -> PipeSegResponses
    [] fn = "translate" -> TranslateResponses
    [] fn = "explain" -> ExplainResponses
    [] fn = "image" -> ImageResponses
    [] fn = "speech" -> SpeechResponses

(***************************************************************************)
(* geminiService.ts: the five operations, each a try block around          *)
(* withRetry and a catch that supplies the fallback.                       *)
(***************************************************************************)
\* "अनुवाद में त्रुटि हुई।"
TranslateSentinel == <<"!", "t">>
\* "इस पंक्ति का स्पष्टीकरण उत्पन्न नहीं हो सका।"
ExplainSentinel == <<"!", "e">>

Catch(body, fallback) == IF body.thrown THEN Ret(fallback) ELSE body

ItemStrings(items) == [k \in 1..Len(items) |-> items[k].str]
\* (mutant) only the empty string is dropped
NotEmpty(t) == t # <<>>

\* filter(s => s.trim() !== '')
NotBlank(t) == Trim(t) # <<>>

\* the try block of splitTextIntoSentences
SplitBody(o) ==
  IF o.thrown THEN Throw
  ELSE IF o.resp.kind # "json" THEN Throw
  ELSE IF ~o.resp.isArray \/ ~(\A k \in 1..Len(o.resp.items) : o.resp.items[k].isString)
       THEN Throw
  ELSE Ret(SelectSeq(ItemStrings(o.resp.items), NotBlank))

splitTextIntoSentences(text, o) == Catch(SplitBody(o), FallbackSplit(text))

\* return response.text.trim()
TextBody(o) ==
  IF o.thrown THEN Throw
  ELSE IF o.resp.kind # "text" THEN Throw
  ELSE Ret(Trim(o.resp.text))

\* (mutant) no catch block
translateTextNoCatch(o) == TextBody(o)

translateText(o) == Catch(TextBody(o), TranslateSentinel)

generateExplanation(o) == Catch(TextBody(o), ExplainSentinel)

\* the first part that carries inlineData
RECURSIVE FirstInline(_)
FirstInline(parts) ==
  IF parts = <<>> THEN Null
  ELSE IF Head(parts).inlineData # Null THEN Head(parts).inlineData
  ELSE FirstInline(Tail(parts))

ImageBody(o) == IF o.thrown THEN Throw ELSE Ret(FirstInline(o.resp))

\* (mutant) no catch block
generateImageNoCatch(o) == ImageBody(o)

generateImage(o) == Catch(ImageBody(o), Null)

\* parts?.[0]?.inlineData?.data ?? null
SpeechBody(o) ==
  IF o.thrown THEN Throw
  ELSE IF o.resp = <<>> THEN Ret(Null)
  ELSE Ret(o.resp[1].inlineData)

\* (mutant) the script is not trimmed
IsBlankNoTrim(script) == script = <<>>

\* if (!script || !script.trim()) return null
IsBlank(script) == Trim(script) = <<>>

generateSpeech(o) == Catch(SpeechBody(o), Null)


(***************************************************************************)
(* State.                                                                  *)
(***************************************************************************)
VARIABLES
  \* React state of App
  inputText, contextText, autoGenerateExplanation, slides, generationState,
  generationProgress,
  \* generateSlides: the contextText its closure holds, its locals and the await
  \* it is suspended at
  capturedContext, lines, newSlides, i, hindi, pc,
  \* withRetry: its local, the invocations of asyncFn and the delays waited
  attempt, calls, waits,
  \* requests in flight at the provider, and the pending setTimeout
  outstanding, timer,
  \* the operation that returned in the step just taken (NoCall when none did),
  \* and the operations requested in this run
  last, issued,
  \* the splitter applied to one text and one provider outcome
  segText, segOutcome, segResult, segDone,
  \* React state of App: the slide on screen and the regeneration flags
  currentSlideIndex, isRegeneratingImage, isRegeneratingTranslation, isRegeneratingScript,
  \* the regenerate handlers suspended at an await, and how many were started
  regens, regenCount,
  \* React state of App: a video export is running
  isGeneratingVideo,
  \* handleDownloadVideo: the await it is suspended at and its locals
  epc, recorder, slideDurations, timeline, totalDuration, preloadedImages,
  preloadedTextCaches, audioStartOffset, sources,
  \* audioContext.currentTime, the pending requestAnimationFrame callbacks and
  \* what the last call of renderLoop drew
  audioClock, raf, lastFrame,
  \* what the export has done so far: its phases in order, the times the render
  \* loop signalled completion, the files downloaded, the alert shown
  phases, completions, downloads, alertShown,
  \* one frame of this lesson's exports, kept for comparison
  probe,
  \* React state of App: the progress shown during the export, a fraction
  videoGenerationProgress,
  \* the decoder applied to one payload: the bytes it was made from and how,
  \* its characters, and the buffer returned or the exception
  srcBytes, srcForm, payload, audioBuffer, decDone,
  \* React state of App: the lesson's playback
  lessonState,
  \* useWebAudioPlayer: the payload its load effect last ran for, its state and
  \* refs, and the payload of the decoding that is neither settled nor cancelled
  base64AudioData, isLoading, audioBufferRef, isPlaying, pendingDecode,
  \* useWebAudioPlayer: the source node the hook refers to, the number of its
  \* source nodes that sound, the calls of play that wait for the audio context
  \* to resume, and whether the step just taken called onEnded
  sourceNodeRef, sounding, resuming, onEndedFired,
  \* the module variable of useWebAudioPlayer.ts that holds the audio context
  sharedAudioContext,
  \* createTextCache applied to one slide: the slide and the layer built
  cacheSlide, textCache, cacheDone

pipeVars ==
  <<inputText, contextText, autoGenerateExplanation, slides, generationState,
    generationProgress, capturedContext, lines, newSlides, i, hindi, pc, attempt, calls,
    waits, outstanding, timer, last, issued>>
segVars == <<segText, segOutcome, segResult, segDone>>
flagVars == <<isRegeneratingImage, isRegeneratingTranslation, isRegeneratingScript>>
viewVars == <<currentSlideIndex, flagVars, regens, regenCount>>
exportVars ==
  <<isGeneratingVideo, epc, recorder, slideDurations, timeline, totalDuration,
    preloadedImages, preloadedTextCaches, audioStartOffset, sources, audioClock, raf,
    lastFrame, phases, completions, downloads, alertShown, probe,
    videoGenerationProgress>>
decVars == <<srcBytes, srcForm, payload, audioBuffer, decDone>>
hookRefs ==
  <<base64AudioData, isLoading, audioBufferRef, isPlaying, pendingDecode, sourceNodeRef,
    sounding, resuming, onEndedFired>>
hookVars == <<hookRefs, sharedAudioContext>>
playVars == <<lessonState, hookVars>>
textVars == <<cacheSlide, textCache, cacheDone>>
vars == <<pipeVars, segVars, viewVars, exportVars, decVars, playVars, textVars>>

NoProgress == [current |-> 0, total |-> 0, step |-> "null"]
Progress(c, t, step) == [current |-> c, total |-> t, step |-> step]
NoTimer == [kind |-> "none", ms |-> 0]
\* useState<number | null>(null): no slide is being regenerated
NoSlide == -1
NoCall == [fn |-> "none", calls |-> 0, waits |-> <<>>, o |-> Rejected, ret |-> Throw]

\* a fraction, as numerator and denominator
Zero == <<0, 1>>
One == <<1, 1>>

\* no frame drawn yet, and no frame kept
NoFrame == [elapsed |-> -1, kind |-> "none", progress |-> Zero, draws |-> <<>>]
NoProbe == [frame |-> NoFrame, old |-> FALSE]

\* no export has been started
ExportIdle ==
  /\ isGeneratingVideo = FALSE
  /\ epc = "idle"
  /\ recorder = "none"
  /\ slideDurations = <<>>
  /\ timeline = <<>>
  /\ totalDuration = 0
  /\ preloadedImages = <<>>
  /\ preloadedTextCaches = <<>>
  /\ audioStartOffset = 0
  /\ sources = <<>>
  /\ audioClock = 0
  /\ raf = 0
  /\ lastFrame = NoFrame
  /\ phases = <<>>
  /\ completions = 0
  /\ downloads = 0
  /\ alertShown = "none"
  /\ probe = NoProbe
  /\ videoGenerationProgress = Zero

\* no payload has been given to the decoder
DecIdle ==
  /\ srcBytes = <<>>
  /\ srcForm = "padded"
  /\ payload = <<>>
  /\ audioBuffer = Throw
  /\ decDone = FALSE

\* no text layer: the values createTextCache starts from (line 357)
NoTextCache == [finalEnglishFontSize |-> 0, finalHindiFontSize |-> 0, englishLines |-> <<>>, hindiLines |-> <<>>, totalTextHeight |-> 0]

\* no slide has been given to createTextCache
TextIdle ==
  /\ cacheSlide = [english |-> <<0>>, hindi |-> <<0>>]
  /\ textCache = NoTextCache
  /\ cacheDone = FALSE

\* no source node
NoSource == [on |-> FALSE, buffer |-> Null]

\* sharedAudioContext is null
NoContext == [id |-> 0, closed |-> FALSE]

\* the player has no audio data, and no audio context was asked for
HookIdle ==
  /\ base64AudioData = Null
  /\ isLoading = FALSE
  /\ audioBufferRef = Null
  /\ isPlaying = FALSE
  /\ pendingDecode = Null
  /\ sourceNodeRef = NoSource
  /\ sounding = 0
  /\ resuming = 0
  /\ onEndedFired = FALSE
  /\ sharedAudioContext = NoContext

\* GenerationButton: isLoading
Loading == {"processing", "translating", "explaining", "imaging", "narrating"}

\* the state as one record, so that a handler is a function from state to state
St ==
  [inputText |-> inputText, contextText |-> contextText,
   capturedContext |-> capturedContext,
   autoGenerateExplanation |-> autoGenerateExplanation,
   slides |-> slides, generationState |-> generationState,
   generationProgress |-> generationProgress, lines |-> lines,
   newSlides |-> newSlides, i |-> i, hindi |-> hindi, pc |-> pc,
   attempt |-> attempt, calls |-> calls, waits |-> waits,
   outstanding |-> outstanding, timer |-> timer, last |-> last, issued |-> issued]

Apply(s) ==
  /\ inputText' = s.inputText
  /\ contextText' = s.contextText
  /\ capturedContext' = s.capturedContext
  /\ autoGenerateExplanation' = s.autoGenerateExplanation
  /\ slides' = s.slides
  /\ generationState' = s.generationState
  /\ generationProgress' = s.generationProgress
  /\ lines' = s.lines
  /\ newSlides' = s.newSlides
  /\ i' = s.i
  /\ hindi' = s.hindi
  /\ pc' = s.pc
  /\ attempt' = s.attempt
  /\ calls' = s.calls
  /\ waits' = s.waits
  /\ outstanding' = s.outstanding
  /\ timer' = s.timer
  /\ last' = s.last
  /\ issued' = s.issued

(***************************************************************************)
(* Sequencing: F applied to the state that the statements before it leave. *)
(***************************************************************************)
Then(s, F(_)) == CHOOSE r \in {F(x) : x \in {s}} : TRUE

(***************************************************************************)
(* withRetry.                                                              *)
(***************************************************************************)
\* the text a request of the suspended call carries
CallArg(s, fn) ==
  CASE fn = "segment" -> s.inputText
    [] fn \in {"translate", "explain"} -> s.lines[s.i + 1]
    [] fn = "image" -> s.newSlides[s.i + 1].english
    [] fn = "speech" -> s.newSlides[s.i + 1].script

\* (mutant) every image request carries the script of the first slide
CallScriptOfFirstSlide(s, fn) == IF fn = "image" THEN s.newSlides[1].script ELSE <<>>

\* the script a request of the suspended call carries: generateImage(
\* slide.english, slide.script, contextText)
CallScript(s, fn) == IF fn = "image" THEN s.newSlides[s.i + 1].script ELSE <<>>

\* (mutant) the image requests carry no context
CallContextNotForImages(s, fn) ==
  IF fn \in {"translate", "explain"} THEN s.capturedContext ELSE Null

\* the context a request of the suspended call carries: the contextText of
\* the closure, for the three operations that take one
CallContext(s, fn) ==
  IF fn \in {"translate", "explain", "image"} THEN s.capturedContext ELSE Null

\* await asyncFn(): one request to the provider
Issue(fn, idx, att, arg, script, context) ==
  {[fn |-> fn, idx |-> idx, attempt |-> att, arg |-> arg, script |-> script,
    context |-> context]}

\* (mutant) the exponent one too large
BackoffDelayOffByOne(att) == InitialDelay * 2 ^ att

\* initialDelay * Math.pow(2, attempt - 1)
BackoffDelay(att) == InitialDelay * 2 ^ (att - 1)

\* attempt >= maxRetries
Exhausted(att) == att >= MaxRetries

\* entering withRetry: attempt = 0 and the first asyncFn()
StartCall(s, fn) ==
  [s EXCEPT !.pc = fn, !.attempt = 0, !.calls = 1, !.waits = <<>>,
            !.outstanding = @ \cup Issue(fn, s.i, 1, CallArg(s, fn), CallScript(s, fn),
                                          CallContext(s, fn)),
            !.issued = @ \cup {fn}]

\* await new Promise(resolve => setTimeout(resolve, 2000)) in generateSlides
Sleep(s, at) == [s EXCEPT !.pc = at, !.timer = [kind |-> "pace", ms |-> PaceDelay]]

\* a step in which no operation returns
Quiet(s) == [s EXCEPT !.last = NoCall]

(***************************************************************************)
(* generateSlides, from each await to the next.                            *)
(***************************************************************************)
Step1Name(s) == IF s.autoGenerateExplanation THEN "Translating & Explaining" ELSE "Translating"

\* an exception nothing catches: the promise of generateSlides rejects
Crash(s) == [s EXCEPT !.pc = "none"]

\* (mutant) the progress indicator is left on the screen
AbortKeepsProgress(s) == [s EXCEPT !.generationState = "error", !.pc = "none"]

\* lines 51-53: the catch block around the segmentation
Abort(s) ==
  [s EXCEPT !.generationState = "error", !.generationProgress = NoProgress, !.pc = "none"]

\* lines 123-124
FinishRun(s) ==
  [s EXCEPT !.generationState = "done", !.generationProgress = NoProgress, !.pc = "none"]

\* newSlides[i].audioData = a; setSlides([...newSlides])
StoreAudio(s, a) ==
  LET ns == [s.newSlides EXCEPT ![s.i + 1].audioData = a]
  IN [s EXCEPT !.newSlides = ns, !.slides = ns]

\* newSlides[i].imageUrl = u; setSlides([...newSlides])
StoreImage(s, u) ==
  LET ns == [s.newSlides EXCEPT ![s.i + 1].imageUrl = u]
  IN [s EXCEPT !.newSlides = ns, !.slides = ns]

\* the finally block of the narration loop, and i++
NarrateFinally(s) ==
  [s EXCEPT !.generationProgress = Progress(s.i + 1, Len(s.lines), "Generating Narration"),
            !.i = @ + 1]

\* lines 110-113 and the loop test: the slide is stored; sleep, or leave the loop
NarrateStored(s) ==
  IF s.i < Len(s.newSlides) - 1 THEN Sleep(s, "pace3")
  ELSE Then(NarrateFinally(s), FinishRun)

\* generateSpeech up to its await: a blank script is never sent to the provider
\* (the caller then stores the null it returns)
GenerateSpeechCall(s) ==
  IF IsBlank(s.newSlides[s.i + 1].script)
  THEN Then(StoreAudio(s, Null), NarrateStored)
  ELSE StartCall(s, "speech")

\* one iteration of the narration loop, up to its first await
NarrateIter(s) ==
  IF ~(s.i < Len(s.newSlides)) THEN FinishRun(s)
  ELSE IF ~IsBlank(s.newSlides[s.i + 1].script)
       THEN GenerateSpeechCall(s)
       ELSE Then(StoreAudio(s, Null), NarrateStored)

\* lines 100-101
StartNarrating(s) ==
  Then([s EXCEPT !.generationState = "narrating",
                 !.generationProgress = Progress(0, Len(s.newSlides), "Generating Narration"),
                 !.i = 0],
       NarrateIter)

NarrateNext(s) == Then(NarrateFinally(s), NarrateIter)

AfterSpeech(s, ret) ==
  IF ret.thrown
  THEN Then(StoreAudio(s, Null), NarrateNext)
  ELSE Then(StoreAudio(s, ret.val), NarrateStored)

AfterPace3(s) == NarrateNext(s)

\* (mutant) a slide without image is not counted
ImageFinallySkipsFailed(s) ==
  [s EXCEPT !.generationProgress =
              IF s.newSlides[s.i + 1].imageUrl = Null THEN @
              ELSE Progress(s.i + 1, Len(s.lines), "Generating Images"),
            !.i = @ + 1]

\* the finally block of the image loop, and i++
ImageFinally(s) ==
  [s EXCEPT !.generationProgress = Progress(s.i + 1, Len(s.lines), "Generating Images"),
            !.i = @ + 1]

\* (mutant) the images of all remaining slides are requested at once
ImageIterAllAtOnce(s) ==
  IF s.i < Len(s.newSlides)
  THEN [StartCall(s, "image") EXCEPT
          !.outstanding = {[fn |-> "image", idx |-> k, attempt |-> 1,
                            arg |-> s.newSlides[k + 1].english,
                            script |-> s.newSlides[k + 1].script,
                            context |-> s.capturedContext] :
                           k \in s.i..(Len(s.newSlides) - 1)}]
  ELSE StartNarrating(s)

\* one iteration of the image loop, up to its first await
ImageIter(s) ==
  IF s.i < Len(s.newSlides) THEN StartCall(s, "image") ELSE StartNarrating(s)

ImageNext(s) == Then(ImageFinally(s), ImageIter)

\* (mutant) no delay between the images of two slides
ImageStoredNoDelay(s) == ImageNext(s)

\* lines 86-89 and the loop test: the slide is stored; sleep, or go on
ImageStored(s) ==
  IF s.i < Len(s.newSlides) - 1 THEN Sleep(s, "pace2")
  ELSE ImageNext(s)

AfterImage(s, ret) ==
  IF ret.thrown
  THEN Then(StoreImage(s, Null), ImageNext)
  ELSE Then(StoreImage(s, ret.val), ImageStored)

AfterPace2(s) == ImageNext(s)

\* lines 80-81
StartImaging(s) ==
  Then([s EXCEPT !.generationState = "imaging",
                 !.generationProgress = Progress(0, Len(s.lines), "Generating Images"),
                 !.i = 0],
       ImageIter)

\* lines 74-76 and the loop test: the slide is published; sleep, or leave the loop
SlidePushed(s) ==
  IF s.i < Len(s.lines) - 1 THEN Sleep(s, "pace1")
  ELSE StartImaging(s)

\* lines 70-72
PushSlide(s, script) ==
  LET ns == Append(s.newSlides,
                   [id |-> s.i, english |-> s.lines[s.i + 1], hindi |-> s.hindi,
                    imageUrl |-> Null, script |-> script, audioData |-> Null])
  IN Then([s EXCEPT !.newSlides = ns, !.slides = ns,
                    !.generationProgress = Progress(s.i + 1, Len(s.lines), Step1Name(s))],
          SlidePushed)

\* (mutant) a failed explanation aborts the lesson
AfterExplainAborts(s, ret) ==
  IF ret.thrown THEN Abort(s)
  ELSE IF ret.val = ExplainSentinel THEN Abort(s)
  ELSE PushSlide(s, ret.val)

AfterExplain(s, ret) == IF ret.thrown THEN Crash(s) ELSE PushSlide(s, ret.val)

\* lines 65-69
Translated(s) ==
  IF s.autoGenerateExplanation
  THEN StartCall([s EXCEPT !.generationState = "explaining"], "explain")
  ELSE PushSlide(s, <<" ">>)

AfterTranslate(s, ret) ==
  IF ret.thrown THEN Crash(s)
  ELSE Then([s EXCEPT !.hindi = ret.val], Translated)

TranslateIter(s) == StartCall(s, "translate")

AfterPace1(s) == Then([s EXCEPT !.i = @ + 1], TranslateIter)

\* lines 43-64
AfterSegment(s, ret) ==
  IF ret.thrown THEN Abort(s)
  ELSE IF Len(ret.val) = 0 THEN Abort(s)
  ELSE Then([s EXCEPT !.lines = ret.val, !.generationState = "translating",
                      !.newSlides = <<>>,
                      !.generationProgress = Progress(0, Len(ret.val), Step1Name(s)),
                      !.i = 0],
            TranslateIter)

\* what the operation suspended at s.pc returns for the outcome o of withRetry
Wrapper(s, o) ==
  CASE s.pc = "segment" -> splitTextIntoSentences(s.inputText, o)
    [] s.pc = "translate" -> translateText(o)
    [] s.pc = "explain" -> generateExplanation(o)
    [] s.pc = "image" -> generateImage(o)
    [] s.pc = "speech" -> generateSpeech(o)

Resume(s, ret) ==
  CASE s.pc = "segment" -> AfterSegment(s, ret)
    [] s.pc = "translate" -> AfterTranslate(s, ret)
    [] s.pc = "explain" -> AfterExplain(s, ret)
    [] s.pc = "image" -> AfterImage(s, ret)
    [] s.pc = "speech" -> AfterSpeech(s, ret)

\* the operation returns ret and generateSlides resumes
Returns(s, o, ret) ==
  Then([s EXCEPT !.last = [fn |-> s.pc, calls |-> s.calls, waits |-> s.waits,
                           o |-> o, ret |-> ret],
                 !.attempt = 0, !.calls = 0, !.waits = <<>>],
       LAMBDA x : Resume(x, ret))

\* withRetry settles with outcome o
Settle(s, o) == Then(Wrapper(s, o), LAMBDA ret : Returns(s, o, ret))

\* the catch block of withRetry
OnFailure(s) ==
  LET att == s.attempt + 1
  IN IF Exhausted(att) THEN Settle([s EXCEPT !.attempt = att], Rejected)
     ELSE [Quiet(s) EXCEPT !.attempt = att,
                           !.waits = Append(@, BackoffDelay(att)),
                           !.timer = [kind |-> "backoff", ms |-> BackoffDelay(att)]]

\* the backoff is over: the loop of withRetry calls asyncFn again
Retry(s) ==
  [Quiet(s) EXCEPT !.timer = NoTimer, !.calls = @ + 1,
                   !.outstanding = @ \cup Issue(s.pc, s.i, s.attempt + 1, CallArg(s, s.pc),
                                                 CallScript(s, s.pc), CallContext(s, s.pc))]

\* lines 31-42
StartRun(s) ==
  IF Trim(s.inputText) = <<>> THEN s
  ELSE StartCall([s EXCEPT !.capturedContext = s.contextText,
                           !.slides = <<>>, !.generationState = "processing",
                           !.generationProgress = Progress(0, 1, "Analyzing lesson text"),
                           !.lines = <<>>, !.newSlides = <<>>, !.i = 0, !.hindi = <<>>,
                           !.last = NoCall, !.issued = {}],
                 "segment")

(***************************************************************************)
(* Actions of the pipeline.                                                *)
(***************************************************************************)
InputTexts == {<<>>, <<" ">>, <<"a", "b">>, Line(1) \o <<".", NL>> \o Line(2) \o <<".">>}
ContextTexts == {"", "previous chapter"}

Init ==
  /\ inputText = <<>>
  /\ autoGenerateExplanation = TRUE
  /\ slides = <<>>
  /\ generationState = "idle"
  /\ generationProgress = NoProgress
  /\ lines = <<>>
  /\ newSlides = <<>>
  /\ i = 0
  /\ hindi = <<>>
  /\ pc = "none"
  /\ attempt = 0
  /\ calls = 0
  /\ waits = <<>>
  /\ outstanding = {}
  /\ timer = NoTimer
  /\ last = NoCall
  /\ issued = {}
  /\ segText = <<>>
  /\ segOutcome = Rejected
  /\ segResult = Throw
  /\ segDone = FALSE
  /\ currentSlideIndex = 0
  /\ isRegeneratingImage = NoSlide
  /\ isRegeneratingTranslation = NoSlide
  /\ isRegeneratingScript = NoSlide
  /\ regens = {}
  /\ regenCount = 0
  /\ ExportIdle
  /\ DecIdle
  /\ lessonState = "idle"
  /\ HookIdle
  /\ contextText = ""
  /\ capturedContext = ""
  /\ TextIdle

\* the creator view is shown and its inputs are enabled
CreatorEnabled == slides = <<>> /\ generationState \notin Loading

\* a handler runs on the current state and leaves the state it computes
Run(H(_)) == \E s \in {St} : \E n \in {H(s)} : Apply(n) /\ UNCHANGED <<segVars, viewVars, exportVars, decVars, playVars, textVars>>

\* the lesson text area
SetInputText(t) ==
  /\ CreatorEnabled
  /\ t # inputText
  /\ Run(LAMBDA s : [Quiet(s) EXCEPT !.inputText = t])

\* the context text area
SetContextText(c) ==
  /\ CreatorEnabled
  /\ c # contextText
  /\ Run(LAMBDA s : [Quiet(s) EXCEPT !.contextText = c])

\* the auto-generate checkbox
SetAutoGenerateExplanation ==
  /\ CreatorEnabled
  /\ Run(LAMBDA s : [Quiet(s) EXCEPT !.autoGenerateExplanation = ~@])

\* the Generate Lesson button: generateSlides up to its first await
GenerateSlides ==
  /\ CreatorEnabled
  /\ inputText # <<>>
  /\ Run(StartRun)

\* the provider answers a request with one of the responses R offers for it
ProviderRespondsWith(R(_)) ==
  \E req \in outstanding : \E resp \in R(req.fn) :
    Run(LAMBDA s : Settle([s EXCEPT !.outstanding = @ \ {req}], Resolved(resp)))

\* the provider answers a request
ProviderResponds == ProviderRespondsWith(Responses)

\* a request fails
ProviderFails ==
  \E req \in outstanding :
    Run(LAMBDA s : OnFailure([s EXCEPT !.outstanding = @ \ {req}]))

\* the setTimeout of withRetry fires
BackoffElapses ==
  /\ timer.kind = "backoff"
  /\ Run(Retry)

\* the setTimeout of generateSlides fires
AfterPace(s) ==
  CASE s.pc = "pace1" -> AfterPace1(s)
    [] s.pc = "pace2" -> AfterPace2(s)
    [] s.pc = "pace3" -> AfterPace3(s)

PaceElapses ==
  /\ timer.kind = "pace"
  /\ Run(LAMBDA s : AfterPace([Quiet(s) EXCEPT !.timer = NoTimer]))

\* the Start New Lesson button
NewLesson(s) ==
  [Quiet(s) EXCEPT !.inputText = <<>>, !.contextText = "", !.slides = <<>>,
                   !.generationState = "idle",
                   !.generationProgress = NoProgress,
                   \* the closure of the finished run is unreachable
                   !.capturedContext = "", !.lines = <<>>, !.newSlides = <<>>, !.i = 0,
                   !.hindi = <<>>, !.issued = {}]

HandleNewLesson ==
  /\ slides # <<>>
  /\ generationState \notin Loading
  /\ ~isGeneratingVideo
  /\ \E s \in {St} : \E n \in {NewLesson(s)} : Apply(n)
  /\ currentSlideIndex' = 0
  /\ lessonState' = "idle"
  /\ UNCHANGED <<segVars, flagVars, regens, regenCount, exportVars, decVars, hookVars, textVars>>

Next ==
  \/ \E t \in InputTexts : SetInputText(t)
  \/ SetAutoGenerateExplanation
  \/ GenerateSlides
  \/ ProviderResponds
  \/ ProviderFails
  \/ BackoffElapses
  \/ PaceElapses
  \/ HandleNewLesson

Spec == Init /\ [][Next]_vars

\* every request is answered or fails, and every timer fires
FairSpec ==
  /\ Spec
  /\ WF_vars(ProviderResponds \/ ProviderFails)
  /\ WF_vars(BackoffElapses)
  /\ WF_vars(PaceElapses)

(***************************************************************************)
(* The slide viewer: navigation and the three regenerate handlers.  A      *)
(* handler captures the slide on screen, awaits the service and then maps  *)
(* the slides of that moment.  The service call is one step here: it ends  *)
(* with one of the outcomes withRetry can have.                            *)
(***************************************************************************)
\* the regenerations started in a behaviour of the model
MaxRegens == 1

Regen(kind, id, english, script, context) ==
  [kind |-> kind, id |-> id, english |-> english, script |-> script, context |-> context]

\* slides[currentSlideIndex]
CurrentSlide == slides[currentSlideIndex + 1]

\* SlideViewer: isRegenerating, the disabled attribute of the three buttons
RegenDisabled ==
  \/ isGeneratingVideo
  \/ isRegeneratingImage = CurrentSlide.id
  \/ isRegeneratingTranslation = CurrentSlide.id
  \/ isRegeneratingScript = CurrentSlide.id

\* a regenerate button is on screen, enabled, and its handler can be started
CanRegenerate(r) ==
  /\ currentSlideIndex < Len(slides)
  /\ ~RegenDisabled
  /\ r \notin regens
  /\ regenCount < MaxRegens

\* everything of the pipeline's state but slides; no operation of the run returns
PipeIdle ==
  /\ last' = NoCall
  /\ UNCHANGED <<inputText, contextText, autoGenerateExplanation, generationState,
                 generationProgress, capturedContext, lines, newSlides, i, hindi, pc,
                 attempt, calls, waits, outstanding, timer, issued>>

\* the outcomes of withRetry around a request of kind fn
Outcomes(fn) == {Rejected} \cup {Resolved(resp) : resp \in Responses(fn)}

\* (mutant) the slides that do not match are dropped
KeepOnlySlide(prevSlides, id, field, val) ==
  SelectSeq([k \in 1..Len(prevSlides) |-> [prevSlides[k] EXCEPT ![field] = val]],
            LAMBDA sl : sl.id = id)

\* prevSlides.map(s => s.id === slide.id ? { ...s, [field]: val } : s)
MapSlide(prevSlides, id, field, val) ==
  [k \in 1..Len(prevSlides) |->
     IF prevSlides[k].id = id THEN [prevSlides[k] EXCEPT ![field] = val]
     ELSE prevSlides[k]]

\* handleManualNext
HandleManualNext ==
  /\ ~isGeneratingVideo
  /\ currentSlideIndex < Len(slides) - 1
  /\ currentSlideIndex' = currentSlideIndex + 1
  /\ lessonState' = "paused"
  /\ PipeIdle
  /\ UNCHANGED <<slides, segVars, flagVars, regens, regenCount, exportVars, decVars, hookVars, textVars>>

\* handleManualPrev
HandleManualPrev ==
  /\ ~isGeneratingVideo
  /\ currentSlideIndex > 0
  /\ currentSlideIndex' = currentSlideIndex - 1
  /\ lessonState' = "paused"
  /\ PipeIdle
  /\ UNCHANGED <<slides, segVars, flagVars, regens, regenCount, exportVars, decVars, hookVars, textVars>>

\* handleRegenerateImage up to its await
HandleRegenerateImage ==
  /\ CanRegenerate(Regen("image", CurrentSlide.id, CurrentSlide.english, <<>>, contextText))
  /\ isRegeneratingImage' = CurrentSlide.id
  /\ regens' = regens \cup {Regen("image", CurrentSlide.id, CurrentSlide.english, <<>>, contextText)}
  /\ regenCount' = regenCount + 1
  /\ PipeIdle
  /\ UNCHANGED <<slides, segVars, currentSlideIndex, isRegeneratingTranslation,
                 isRegeneratingScript, exportVars, decVars, playVars, textVars>>

\* handleRegenerateTranslation up to its await
HandleRegenerateTranslation ==
  /\ CanRegenerate(Regen("translate", CurrentSlide.id, CurrentSlide.english, <<>>, contextText))
  /\ isRegeneratingTranslation' = CurrentSlide.id
  /\ regens' = regens \cup {Regen("translate", CurrentSlide.id, CurrentSlide.english, <<>>, contextText)}
  /\ regenCount' = regenCount + 1
  /\ PipeIdle
  /\ UNCHANGED <<slides, segVars, currentSlideIndex, isRegeneratingImage,
                 isRegeneratingScript, exportVars, decVars, playVars, textVars>>

\* handleRegenerateScript up to its first await
HandleRegenerateScript ==
  /\ CanRegenerate(Regen("explain", CurrentSlide.id, CurrentSlide.english, <<>>, contextText))
  /\ isRegeneratingScript' = CurrentSlide.id
  /\ regens' = regens \cup {Regen("explain", CurrentSlide.id, CurrentSlide.english, <<>>, contextText)}
  /\ regenCount' = regenCount + 1
  /\ PipeIdle
  /\ UNCHANGED <<slides, segVars, currentSlideIndex, isRegeneratingImage,
                 isRegeneratingTranslation, exportVars, decVars, playVars, textVars>>

\* handleRegenerateImage after generateImage returned ret
ImageRegenerated(r, ret) ==
  /\ slides' = IF ret.thrown THEN slides ELSE MapSlide(slides, r.id, "imageUrl", ret.val)
  /\ isRegeneratingImage' = NoSlide
  /\ regens' = regens \ {r}
  /\ UNCHANGED <<isRegeneratingTranslation, isRegeneratingScript>>

\* handleRegenerateTranslation after translateText returned ret
TranslationRegenerated(r, ret) ==
  /\ slides' = IF ret.thrown THEN slides ELSE MapSlide(slides, r.id, "hindi", ret.val)
  /\ isRegeneratingTranslation' = NoSlide
  /\ regens' = regens \ {r}
  /\ UNCHANGED <<isRegeneratingImage, isRegeneratingScript>>

\* handleRegenerateScript after generateSpeech returned ret for newScript
ScriptRegenerated(r, newScript, ret) ==
  /\ slides' = IF ret.thrown THEN slides
               ELSE MapSlide(MapSlide(slides, r.id, "script", newScript),
                             r.id, "audioData", ret.val)
  /\ isRegeneratingScript' = NoSlide
  /\ regens' = regens \ {r}
  /\ UNCHANGED <<isRegeneratingImage, isRegeneratingTranslation>>

\* handleRegenerateScript after generateExplanation returned ret: generateSpeech
\* answers a blank script at once, and sends any other to the provider
ScriptExplained(r, ret) ==
  IF ret.thrown THEN ScriptRegenerated(r, <<>>, Throw)
  ELSE IF IsBlank(ret.val) THEN ScriptRegenerated(r, ret.val, Ret(Null))
  ELSE /\ regens' = (regens \ {r}) \cup {Regen("speech", r.id, r.english, ret.val, Null)}
       /\ UNCHANGED <<slides, flagVars>>

\* the service call a regenerate handler awaits returns
RegenReturns ==
  \E r \in regens : \E o \in Outcomes(r.kind) :
    /\ CASE r.kind = "image" -> ImageRegenerated(r, generateImage(o))
         [] r.kind = "translate" -> TranslationRegenerated(r, translateText(o))
         [] r.kind = "explain" -> ScriptExplained(r, generateExplanation(o))
         [] r.kind = "speech" -> ScriptRegenerated(r, r.script, generateSpeech(o))
    /\ PipeIdle
    /\ UNCHANGED <<segVars, currentSlideIndex, regenCount, exportVars, decVars, playVars, textVars>>

\* the provider answers the requests of generateSlides at the first attempt
ProviderAnswers == ProviderRespondsWith(FirstTryResponses)

LessonNext ==
  \/ \E t \in InputTexts : SetInputText(t)
  \/ SetAutoGenerateExplanation
  \/ GenerateSlides
  \/ ProviderAnswers
  \/ PaceElapses
  \/ HandleNewLesson
  \/ HandleManualNext
  \/ HandleManualPrev
  \/ HandleRegenerateImage
  \/ HandleRegenerateTranslation
  \/ HandleRegenerateScript
  \/ RegenReturns

\* the pipeline together with the slide viewer.  The retries of generateSlides'
\* requests are left to Spec: here every such request is answered, and the
\* regenerations are the ones whose service calls end in every possible way.
LessonSpec == Init /\ [][LessonNext]_vars

\* the lesson with its context: the creator's two text areas, the pipeline
\* with explanations, and the slide viewer
ContextNext ==
  \/ \E t \in {<<"a", "b">>, Line(1) \o <<".", NL>> \o Line(2) \o <<".">>} : SetInputText(t)
  \/ \E c \in ContextTexts : SetContextText(c)
  \/ GenerateSlides
  \/ ProviderAnswers
  \/ PaceElapses
  \/ HandleNewLesson
  \/ HandleManualNext
  \/ HandleRegenerateImage
  \/ HandleRegenerateTranslation
  \/ HandleRegenerateScript
  \/ RegenReturns

ContextSpec == Init /\ [][ContextNext]_vars

(***************************************************************************)
(* The audio decoder: decode and getAudioBufferFromBase64, on payloads     *)
(* given as sequences of characters and bytes given as numbers 0..255.     *)
(***************************************************************************)
SampleRate == 24000
NumChannels == 1
Int16Scale == 32768

\* the base64 alphabet, in the order of its values 0..63
B64Chars ==
  <<"A", "B", "C", "D", "E", "F", "G", "H", "I", "J", "K", "L", "M", "N", "O", "P",
    "Q", "R", "S", "T", "U", "V", "W", "X", "Y", "Z", "a", "b", "c", "d", "e", "f",
    "g", "h", "i", "j", "k", "l", "m", "n", "o", "p", "q", "r", "s", "t", "u", "v",
    "w", "x", "y", "z", "0", "1", "2", "3", "4", "5", "6", "7", "8", "9", "+", "/">>

IsB64Char(c) == \E k \in 1..64 : B64Chars[k] = c
B64Value(c) == (CHOOSE k \in 1..64 : B64Chars[k] = c) - 1
IsAsciiSpace(c) == c \in {" ", "\n", "\t", "\r", "\f"}

\* the bytes of a sequence of 6-bit values; the bits left over at the end are
\* dropped
RECURSIVE BytesOfSextets(_)
BytesOfSextets(v) ==
  IF Len(v) >= 4
  THEN LET n == v[1] * 262144 + v[2] * 4096 + v[3] * 64 + v[4]
       IN <<n \div 65536, (n \div 256) % 256, n % 256>>
            \o BytesOfSextets(SubSeq(v, 5, Len(v)))
  ELSE IF Len(v) = 3
  THEN LET n == (v[1] * 4096 + v[2] * 64 + v[3]) \div 4
       IN <<n \div 256, n % 256>>
  ELSE IF Len(v) = 2
  THEN <<(v[1] * 64 + v[2]) \div 16>>
  ELSE <<>>

\* window.atob, the forgiving base64 decoding of the platform: white space is
\* ignored, the padding may be left out, and anything else that is not base64
\* raises InvalidCharacterError
atob(data) ==
  LET stripped == SelectSeq(data, LAMBDA c : ~IsAsciiSpace(c))
      n == Len(stripped)
      pad == IF n > 0 /\ n % 4 = 0
             THEN IF stripped[n] = "=" /\ stripped[n - 1] = "=" THEN 2
                  ELSE IF stripped[n] = "=" THEN 1
                  ELSE 0
             ELSE 0
      body == SubSeq(stripped, 1, n - pad)
  IN IF Len(body) % 4 = 1 THEN Throw
     ELSE IF \E k \in 1..Len(body) : ~IsB64Char(body[k]) THEN Throw
     ELSE Ret(BytesOfSextets([k \in 1..Len(body) |-> B64Value(body[k])]))

\* decode(base64): the char codes of atob's binary string
decode(base64) == atob(base64)

\* (mutant) the two bytes of a sample read high byte first
Int16AtBigEndian(bytes, k) ==
  LET u == bytes[2 * k - 1] * 256 + bytes[2 * k]
  IN IF u >= 32768 THEN u - 65536 ELSE u

\* element k (from 1) of an Int16Array over the bytes: two's complement, low
\* byte first
Int16At(bytes, k) ==
  LET u == bytes[2 * k - 1] + bytes[2 * k] * 256
  IN IF u >= 32768 THEN u - 65536 ELSE u

\* (mutant) a trailing odd byte is dropped
Int16ArrayTruncating(bytes) ==
  Ret([k \in 1..(Len(bytes) \div 2) |-> Int16At(bytes, k)])

\* new Int16Array(data.buffer): RangeError unless the byte length is a
\* multiple of 2
Int16Array(bytes) ==
  IF Len(bytes) % 2 # 0 THEN Throw
  ELSE Ret([k \in 1..(Len(bytes) \div 2) |-> Int16At(bytes, k)])

\* ctx.createBuffer(numChannels, frameCount, sampleRate) with its channel
\* filled in by the loop of lines 44-49; NotSupportedError for no frames.
\* Samples and the duration are fractions <<numerator, denominator>>.
createBuffer(numChannels, dataInt16, sampleRate) ==
  LET frameCount == Len(dataInt16) \div numChannels
  IN IF frameCount = 0 THEN Throw
     ELSE Ret([numberOfChannels |-> numChannels,
               sampleRate |-> sampleRate,
               length |-> frameCount,
               duration |-> <<frameCount, sampleRate>>,
               channelData |-> [k \in 1..frameCount |-> <<dataInt16[k], Int16Scale>>]])

\* getAudioBufferFromBase64 on the characters of the payload
DecodeAudio(base64) ==
  LET data == decode(base64)
  IN IF data.thrown THEN Throw
     ELSE LET dataInt16 == Int16Array(data.val)
          IN IF dataInt16.thrown THEN Throw
             ELSE createBuffer(NumChannels, dataInt16.val, SampleRate)

(***************************************************************************)
(* handleDownloadVideo: slide durations, the timeline and the frame drawn  *)
(* at an elapsed time.  Times are in tenths of a second.                   *)
(***************************************************************************)
\* the narration payloads of the model, named by the length of their audio
PcmPayloads == {"pcm02", "pcm03", "pcm05", "pcm10", "pcm20", "pcm40"}
PcmTenths(base64) ==
  CASE base64 = "pcm02" -> 2
    [] base64 = "pcm03" -> 3
    [] base64 = "pcm05" -> 5
    [] base64 = "pcm10" -> 10
    [] base64 = "pcm20" -> 20
    [] base64 = "pcm40" -> 40

\* buffer.duration, or the exception that atob, Int16Array or createBuffer
\* raises for a payload that is not 16-bit PCM in base64
getAudioBufferFromBase64(base64) ==
  IF base64 \in PcmPayloads THEN Ret(PcmTenths(base64)) ELSE Throw

\* slide.audioData is truthy
HasAudio(slide) == slide.audioData # Null /\ slide.audioData # ""

\* (mutant) a narration of exactly the minimum is padded too
SlideDurationInclusive(slide) ==
  IF ~HasAudio(slide) THEN Ret(DefaultDuration)
  ELSE LET buffer == getAudioBufferFromBase64(slide.audioData)
       IN IF buffer.thrown THEN Throw
          ELSE Ret(IF buffer.val >= MinNarration THEN buffer.val + Padding
                   ELSE DefaultDuration)

\* lines 453-457, one slide
SlideDuration(slide) ==
  IF ~HasAudio(slide) THEN Ret(DefaultDuration)
  ELSE LET buffer == getAudioBufferFromBase64(slide.audioData)
       IN IF buffer.thrown THEN Throw
          ELSE Ret(IF buffer.val > MinNarration THEN buffer.val + Padding
                   ELSE DefaultDuration)

\* await Promise.all(slides.map(...)): every duration, or the first rejection
AllSlideDurations(sl) ==
  IF \E k \in 1..Len(sl) : SlideDuration(sl[k]).thrown THEN Throw
  ELSE Ret([k \in 1..Len(sl) |-> SlideDuration(sl[k]).val])

SlideEvent(index, startTime, duration) ==
  [type |-> "slide", index |-> index, from |-> NoSlide, to |-> NoSlide,
   startTime |-> startTime, duration |-> duration]
TransitionEvent(from, to, startTime, duration) ==
  [type |-> "transition", index |-> NoSlide, from |-> from, to |-> to,
   startTime |-> startTime, duration |-> duration]

\* (mutant) a transition is pushed after the last slide as well
RECURSIVE TimelineWithTrailingTransition(_, _, _, _)
TimelineWithTrailingTransition(durations, k, currentTime, events) ==
  IF ~(k < Len(durations)) THEN [timeline |-> events, totalDuration |-> currentTime]
  ELSE LET afterSlide == currentTime + durations[k + 1]
       IN TimelineWithTrailingTransition(
            durations, k + 1, afterSlide + TransitionDuration,
            events \o <<SlideEvent(k, currentTime, durations[k + 1]),
                        TransitionEvent(k, k + 1, afterSlide, TransitionDuration)>>)

\* (mutant) the start times do not advance by the slide's duration
RECURSIVE TimelineWithGaps(_, _, _, _)
TimelineWithGaps(durations, k, currentTime, events) ==
  IF ~(k < Len(durations)) THEN [timeline |-> events, totalDuration |-> currentTime]
  ELSE LET slide == SlideEvent(k, currentTime, durations[k + 1])
           afterSlide == currentTime + DefaultDuration
       IN IF k < Len(durations) - 1
          THEN TimelineWithGaps(
                 durations, k + 1, afterSlide + TransitionDuration,
                 events \o <<slide, TransitionEvent(k, k + 1, afterSlide, TransitionDuration)>>)
          ELSE TimelineWithGaps(durations, k + 1, afterSlide, Append(events, slide))

\* lines 460-470: the loop from i = k on, with the events pushed so far
RECURSIVE TimelineFrom(_, _, _, _)
TimelineFrom(durations, k, currentTime, events) ==
  IF ~(k < Len(durations)) THEN [timeline |-> events, totalDuration |-> currentTime]
  ELSE LET slide == SlideEvent(k, currentTime, durations[k + 1])
           afterSlide == currentTime + durations[k + 1]
       IN IF k < Len(durations) - 1
          THEN TimelineFrom(
                 durations, k + 1, afterSlide + TransitionDuration,
                 events \o <<slide, TransitionEvent(k, k + 1, afterSlide, TransitionDuration)>>)
          ELSE TimelineFrom(durations, k + 1, afterSlide, Append(events, slide))

\* (mutant) the end of an event's interval is taken as part of it
RECURSIVE FindEventInclusive(_, _, _)
FindEventInclusive(events, k, elapsed) ==
  IF k > Len(events) THEN 0
  ELSE IF /\ elapsed >= events[k].startTime
          /\ elapsed <= events[k].startTime + events[k].duration
       THEN k
  ELSE FindEventInclusive(events, k + 1, elapsed)

\* timeline.find(e => elapsed >= e.startTime && elapsed < e.startTime + e.duration),
\* scanning from position k; 0 when find returns undefined
RECURSIVE FindEvent(_, _, _)
FindEvent(events, k, elapsed) ==
  IF k > Len(events) THEN 0
  ELSE IF /\ elapsed >= events[k].startTime
          /\ elapsed < events[k].startTime + events[k].duration
       THEN k
  ELSE FindEvent(events, k + 1, elapsed)

\* watermarkFadeDuration of drawSlideContent, in tenths of a second
WatermarkFadeDuration == 15

\* (mutant) the fade-out of the last slide is tested before the fade-in
watermarkAlphaFadeOutFirst(isFirstSlide, isLastSlide, elapsedSinceSlideStart, slideDuration) ==
  LET raw == IF isLastSlide /\ elapsedSinceSlideStart > slideDuration - WatermarkFadeDuration
             THEN WatermarkFadeDuration
                    - (elapsedSinceSlideStart - (slideDuration - WatermarkFadeDuration))
             ELSE IF isFirstSlide /\ elapsedSinceSlideStart < WatermarkFadeDuration
             THEN elapsedSinceSlideStart
             ELSE WatermarkFadeDuration
  IN <<IF raw < 0 THEN 0 ELSE IF raw > WatermarkFadeDuration THEN WatermarkFadeDuration ELSE raw,
       WatermarkFadeDuration>>

\* lines 435-443: the opacity of the watermark as a fraction, clamped to [0, 1]
watermarkAlpha(isFirstSlide, isLastSlide, elapsedSinceSlideStart, slideDuration) ==
  LET raw == IF isFirstSlide /\ elapsedSinceSlideStart < WatermarkFadeDuration
             THEN elapsedSinceSlideStart
             ELSE IF isLastSlide
                       /\ elapsedSinceSlideStart > slideDuration - WatermarkFadeDuration
             THEN WatermarkFadeDuration
                    - (elapsedSinceSlideStart - (slideDuration - WatermarkFadeDuration))
             ELSE WatermarkFadeDuration
  IN <<IF raw < 0 THEN 0 ELSE IF raw > WatermarkFadeDuration THEN WatermarkFadeDuration ELSE raw,
       WatermarkFadeDuration>>

\* one call of drawSlideContent, by the arguments that choose and animate the
\* slide, and the opacity it gives the watermark
Draw(index, slideProgress, isFirstSlide, isLastSlide, elapsedSinceSlideStart, slideDuration) ==
  [index |-> index, slideProgress |-> slideProgress, isFirstSlide |-> isFirstSlide,
   isLastSlide |-> isLastSlide, elapsedSinceSlideStart |-> elapsedSinceSlideStart,
   slideDuration |-> slideDuration,
   watermarkAlpha |-> watermarkAlpha(isFirstSlide, isLastSlide,
                                     elapsedSinceSlideStart, slideDuration)]

\* line 497: Math.min(1, elapsed / totalDuration)
ProgressAt(elapsed, total) == IF elapsed >= total THEN One ELSE <<elapsed, total>>

Frame(elapsed, kind, progress, draws) ==
  [elapsed |-> elapsed, kind |-> kind, progress |-> progress, draws |-> draws]

\* lines 499-528: what renderLoop draws over the background at elapsed
DrawnAt(x, elapsed) ==
  LET k == FindEvent(x.timeline, 1, elapsed)
      n == Len(x.slides)
      d == x.slideDurations
  IN IF k # 0
     THEN LET e == x.timeline[k]
              eventProgress == <<elapsed - e.startTime, e.duration>>
          IN IF e.type = "slide"
             THEN Frame(elapsed, "slide", eventProgress,
                        <<Draw(e.index, eventProgress, e.index = 0, e.index = n - 1,
                               elapsed - e.startTime, e.duration)>>)
             ELSE Frame(elapsed, "transition", eventProgress,
                        <<Draw(e.from, One, FALSE, FALSE, d[e.from + 1], d[e.from + 1]),
                          Draw(e.to, Zero, FALSE, FALSE, 0, d[e.to + 1])>>)
     ELSE IF elapsed >= x.totalDuration
     THEN Frame(elapsed, "last", One, <<Draw(n - 1, One, FALSE, TRUE, d[n], d[n])>>)
     ELSE Frame(elapsed, "background", Zero, <<>>)

\* (mutant) the frame is chosen by the callback's timestamp
RenderFrameByTimestamp(x, elapsed, now) == [DrawnAt(x, now) EXCEPT !.elapsed = elapsed]

\* renderLoop(now) with the elapsed time of line 496; now is the callback's
\* timestamp, which drawSlideContent uses only for the pulse of the divider
RenderFrame(x, elapsed, now) == DrawnAt(x, elapsed)

(***************************************************************************)
(* handleDownloadVideo, from each await to the next.  The continuation of  *)
(* an await on a promise that is already settled runs before any other     *)
(* callback, so it belongs to the step that reaches the await.             *)
(***************************************************************************)
\* the audio clock is read in steps of ClockQuantum tenths of a second, and up
\* to MaxAdvance steps pass between two reads
ClockQuantum == 5
MaxAdvance == 2

\* the closure of handleDownloadVideo with the state it reads and writes
XSt ==
  [slides |-> slides, isGeneratingVideo |-> isGeneratingVideo, epc |-> epc,
   recorder |-> recorder, slideDurations |-> slideDurations, timeline |-> timeline,
   totalDuration |-> totalDuration, preloadedImages |-> preloadedImages,
   preloadedTextCaches |-> preloadedTextCaches, audioStartOffset |-> audioStartOffset,
   sources |-> sources, audioClock |-> audioClock, raf |-> raf, lastFrame |-> lastFrame,
   phases |-> phases, completions |-> completions, downloads |-> downloads,
   alertShown |-> alertShown, probe |-> probe, ctx |-> sharedAudioContext,
   videoGenerationProgress |-> videoGenerationProgress]

XApply(x) ==
  /\ isGeneratingVideo' = x.isGeneratingVideo
  /\ epc' = x.epc
  /\ recorder' = x.recorder
  /\ slideDurations' = x.slideDurations
  /\ timeline' = x.timeline
  /\ totalDuration' = x.totalDuration
  /\ preloadedImages' = x.preloadedImages
  /\ preloadedTextCaches' = x.preloadedTextCaches
  /\ audioStartOffset' = x.audioStartOffset
  /\ sources' = x.sources
  /\ audioClock' = x.audioClock
  /\ raf' = x.raf
  /\ lastFrame' = x.lastFrame
  /\ phases' = x.phases
  /\ completions' = x.completions
  /\ downloads' = x.downloads
  /\ alertShown' = x.alertShown
  /\ probe' = x.probe
  /\ sharedAudioContext' = x.ctx
  /\ videoGenerationProgress' = x.videoGenerationProgress

\* a handler of the export runs on the current state
XRun(H(_)) ==
  \E x \in {XSt} : \E n \in {H(x)} :
    XApply(n)
      /\ UNCHANGED <<pipeVars, segVars, viewVars, decVars, lessonState, hookRefs, textVars>>

Phase(x, name) == [x EXCEPT !.phases = Append(@, name)]

\* (mutant) the finally block leaves the flag set
ExportFinallyStillGenerating(x) == [x EXCEPT !.epc = "idle"]

\* lines 546-550
ExportFinally(x) ==
  [x EXCEPT !.isGeneratingVideo = FALSE, !.videoGenerationProgress = Zero, !.epc = "idle"]

\* lines 543-545 and the finally block
ExportFails(x) == ExportFinally([x EXCEPT !.alertShown = "error"])

\* (mutant) every call makes a new audio context
getSharedAudioContextAnew(ctx) == [id |-> ctx.id + 1, closed |-> FALSE]

\* useWebAudioPlayer.ts lines 10-17: the context to use, given the one held
getSharedAudioContext(ctx) ==
  IF ctx = NoContext \/ ctx.closed THEN [id |-> ctx.id + 1, closed |-> FALSE] ELSE ctx

\* lines 243-255, with the locals of an earlier export gone; supported is the
\* answer of MediaRecorder.isTypeSupported
StartExport(x, supported) ==
  LET fresh == [x EXCEPT !.recorder = "none", !.slideDurations = <<>>, !.timeline = <<>>,
                         !.totalDuration = 0, !.preloadedImages = <<>>,
                         !.preloadedTextCaches = <<>>, !.audioStartOffset = 0,
                         !.sources = <<>>, !.audioClock = 0, !.raf = 0,
                         !.lastFrame = NoFrame, !.phases = <<>>, !.completions = 0,
                         !.downloads = 0, !.alertShown = "none",
                         !.videoGenerationProgress = Zero,
                         !.probe = [@ EXCEPT !.old = (x.probe # NoProbe)]]
  IN IF ~supported
     THEN [fresh EXCEPT !.alertShown = "unsupported", !.isGeneratingVideo = FALSE]
     ELSE [fresh EXCEPT !.isGeneratingVideo = TRUE, !.epc = "fonts",
                        !.ctx = getSharedAudioContext(@)]

\* lines 459-470
BuildTimeline(durations) == TimelineFrom(durations, 0, 0, <<>>)

\* lines 260-294 and 453-472: after document.fonts.ready; hasContext tells
\* whether canvas.getContext('2d') returned a context
AfterFonts(x, hasContext) ==
  IF ~hasContext THEN ExportFails(x)
  ELSE LET made == [x EXCEPT !.recorder = "inactive"]
           durations == AllSlideDurations(x.slides)
       IN IF durations.thrown THEN ExportFails(made)
          ELSE LET built == BuildTimeline(durations.val)
               IN [made EXCEPT !.slideDurations = durations.val,
                               !.timeline = built.timeline,
                               !.totalDuration = built.totalDuration,
                               !.epc = "images"]

\* loadImage for every slide: null for no source and for an image that fails
LoadImages(sl, loads) ==
  [k \in 1..Len(sl) |->
     IF sl[k].imageUrl = Null \/ sl[k].imageUrl = "" THEN Null
     ELSE IF loads THEN sl[k].imageUrl
     ELSE Null]

\* (mutant) every source starts at audioStartOffset
SourceStartsAtOffset(x, slideEvent) ==
  [index |-> slideEvent.index, when |-> x.audioStartOffset]

\* (mutant) the source starts one second into its slide
SourceStartsLate(x, slideEvent) ==
  [index |-> slideEvent.index, when |-> x.audioStartOffset + slideEvent.startTime + 10]

\* source.start(audioStartOffset + slideEvent.startTime)
StartSource(x, slideEvent) ==
  [index |-> slideEvent.index, when |-> x.audioStartOffset + slideEvent.startTime]

\* lines 477-486: the callbacks of forEach, each resumed after its await
ScheduleAudio(x) ==
  LET narrated == SelectSeq(x.timeline,
                            LAMBDA e : e.type = "slide" /\ HasAudio(x.slides[e.index + 1]))
  IN [x EXCEPT !.sources = [k \in 1..Len(narrated) |-> StartSource(x, narrated[k])]]

\* line 537: requestAnimationFrame(renderLoop)
RequestFrame(x) == [x EXCEPT !.raf = @ + 1, !.epc = "render"]

\* lines 472-473 and 476: the assets of every slide, and the clock read as t
PrepareAssets(x, loads, t) ==
  Phase([x EXCEPT !.preloadedImages = LoadImages(x.slides, loads),
                  !.preloadedTextCaches = [k \in 1..Len(x.slides) |-> x.slides[k].id],
                  !.audioStartOffset = t, !.audioClock = t],
        "assets")

\* (mutant) recorder.start() is left out
StartRecorderForgotten(x) == x

\* line 489: recorder.start()
StartRecorder(x) == Phase([x EXCEPT !.recorder = "recording"], "recorder.start")

\* lines 472-493 and 537: after the images; suspended tells whether the audio
\* context is suspended
AfterImages(x, loads, t, suspended) ==
  LET started == StartRecorder(ScheduleAudio(PrepareAssets(x, loads, t)))
  IN IF suspended THEN [started EXCEPT !.epc = "resume"]
     ELSE RequestFrame(started)

\* after audioContext.resume()
AfterResume(x) == RequestFrame(x)

\* (mutant) the loop asks for another frame at every call
TickAlwaysAgain(x, frame) ==
  LET first == IF x.lastFrame = NoFrame THEN Phase(x, "frames") ELSE x
  IN [first EXCEPT !.lastFrame = frame, !.audioClock = x.audioStartOffset + frame.elapsed]

\* lines 495-536: one call of renderLoop, which read the clock and drew frame
Tick(x, frame) ==
  LET first == IF x.lastFrame = NoFrame THEN Phase(x, "frames") ELSE x
      drawn == [first EXCEPT !.lastFrame = frame, !.raf = @ - 1,
                             !.audioClock = x.audioStartOffset + frame.elapsed,
                             !.videoGenerationProgress =
                               ProgressAt(frame.elapsed, x.totalDuration)]
  IN IF frame.elapsed < x.totalDuration
     THEN [drawn EXCEPT !.raf = @ + 1]
     ELSE Phase([drawn EXCEPT !.completions = @ + 1, !.epc = "hold"], "complete")

\* lines 496-528: a call inside renderLoop throws after the progress was set;
\* the exception leaves the animation frame callback, which requests no
\* further frame and never resolves the promise of the loop
TickThrows(x, elapsed) ==
  [x EXCEPT !.raf = @ - 1, !.audioClock = x.audioStartOffset + elapsed,
            !.videoGenerationProgress = ProgressAt(elapsed, x.totalDuration)]

\* lines 540-541: after the render loop's promise resolved
AfterHold(x) ==
  Phase([x EXCEPT !.recorder = "stopping", !.epc = "stopping"], "recorder.stop")

\* lines 285-293 and the finally block: recorder.onstop
OnStop(x) ==
  ExportFinally(Phase([x EXCEPT !.recorder = "stopped", !.downloads = @ + 1], "file"))

(***************************************************************************)
(* The export on its own: a finished lesson, exported any number of times. *)
(***************************************************************************)
\* the narration of a slide: none, a payload that does not decode, a short
\* one and a long one
ExportAudio == {Null, "bad", "pcm05", "pcm10"}

\* slide k of a finished lesson with narration payload audio; every other
\* slide has no image
ExportSlide(k, audio) ==
  [id |-> k - 1, english |-> Line(k), hindi |-> <<"h">>,
   imageUrl |-> IF k % 2 = 1 THEN "img" ELSE Null,
   script |-> <<"s">>, audioData |-> audio]

LessonOf(audios) == [k \in 1..Len(audios) |-> ExportSlide(k, audios[k])]

\* longer lessons, next to all the short ones
SampleLessons ==
  {LessonOf(<<"pcm10", "pcm03", "pcm40">>),
   LessonOf(<<"pcm02", "pcm05", "pcm20">>),
   LessonOf(<<"", "pcm20">>)}

ExportLessons ==
  {LessonOf(a) : a \in UNION {[1..n -> ExportAudio] : n \in 1..MaxSegments}}
    \cup SampleLessons

\* the state generateSlides leaves at done, for any of the lessons
ExportInit ==
  /\ slides \in ExportLessons
  /\ inputText = <<"a", "b">>
  /\ autoGenerateExplanation = TRUE
  /\ generationState = "done"
  /\ generationProgress = NoProgress
  /\ lines = [k \in 1..Len(slides) |-> slides[k].english]
  /\ newSlides = slides
  /\ i = Len(slides)
  /\ hindi = <<"h">>
  /\ pc = "none"
  /\ attempt = 0
  /\ calls = 0
  /\ waits = <<>>
  /\ outstanding = {}
  /\ timer = NoTimer
  /\ last = NoCall
  /\ issued = {"segment", "translate", "explain", "image", "speech"}
  /\ Init!18 /\ Init!19 /\ Init!20 /\ Init!21
  /\ Init!22 /\ Init!23 /\ Init!24 /\ Init!25 /\ Init!26 /\ Init!27
  /\ ExportIdle
  /\ DecIdle /\ Init!30 /\ HookIdle /\ Init!32 /\ Init!33 /\ TextIdle

\* (mutant) the handler without the test of line 243
HandleDownloadVideoUnguarded ==
  \E supported \in BOOLEAN : XRun(LAMBDA x : StartExport(x, supported))

\* the Download Video button
HandleDownloadVideo ==
  /\ slides # <<>>
  /\ generationState = "done"
  /\ ~isGeneratingVideo
  /\ \E supported \in BOOLEAN : XRun(LAMBDA x : StartExport(x, supported))

\* document.fonts.ready resolves
FontsReady ==
  /\ epc = "fonts"
  /\ \E hasContext \in BOOLEAN : XRun(LAMBDA x : AfterFonts(x, hasContext))

\* every loadImage has resolved
ImagesLoaded ==
  /\ epc = "images"
  /\ \E loads \in BOOLEAN, t \in {0, ClockQuantum}, suspended \in BOOLEAN :
       XRun(LAMBDA x : AfterImages(x, loads, t, suspended))

\* audioContext.resume() resolves
AudioResumed ==
  /\ epc = "resume"
  /\ XRun(AfterResume)

\* the frame just drawn may be the one kept for comparison
KeepProbe(x, keep) ==
  IF keep /\ x.probe = NoProbe THEN [x EXCEPT !.probe = [frame |-> x.lastFrame, old |-> FALSE]]
  ELSE x

\* a requestAnimationFrame callback runs; the audio clock has advanced by d
\* steps since it was last read, and the callback's timestamp is now
RenderLoop(d) ==
  /\ epc = "render"
  /\ raf > 0
  /\ LET elapsed == audioClock + d * ClockQuantum - audioStartOffset
     IN \E now \in {elapsed, elapsed + ClockQuantum}, keep \in BOOLEAN :
          XRun(LAMBDA x : KeepProbe(Tick(x, RenderFrame(x, elapsed, now)), keep))

\* the setTimeout(resolve, 100) of the render loop fires
HoldElapses ==
  /\ epc = "hold"
  /\ XRun(AfterHold)

\* the recorder's stop event
RecorderStops ==
  /\ epc = "stopping"
  /\ XRun(OnStop)

ExportNext ==
  \/ HandleDownloadVideo
  \/ FontsReady
  \/ ImagesLoaded
  \/ AudioResumed
  \/ \E d \in 0..MaxAdvance : RenderLoop(d)
  \/ HoldElapses
  \/ RecorderStops

ExportSpec == ExportInit /\ [][ExportNext]_vars

\* the export next to the New Lesson button, which empties the lesson
StudioNext ==
  \/ ExportNext
  \/ HandleNewLesson

StudioSpec == ExportInit /\ [][StudioNext]_vars

\* a requestAnimationFrame callback runs and one of its drawing calls throws
RenderLoopThrows ==
  /\ epc = "render"
  /\ raf > 0
  /\ \E d \in 0..MaxAdvance :
       XRun(LAMBDA x : TickThrows(x, audioClock + d * ClockQuantum - audioStartOffset))

\* the export with render ticks that may fail
FaultyExportNext ==
  \/ ExportNext
  \/ RenderLoopThrows

FaultyExportSpec == ExportInit /\ [][FaultyExportNext]_vars

\* every promise the export awaits settles, every callback runs, and the audio
\* clock keeps advancing
FairExportSpec ==
  /\ ExportSpec
  /\ WF_vars(FontsReady)
  /\ WF_vars(ImagesLoaded)
  /\ WF_vars(AudioResumed)
  /\ WF_vars(\E d \in 1..MaxAdvance : RenderLoop(d))
  /\ WF_vars(HoldElapses)
  /\ WF_vars(RecorderStops)

\* the same, with render ticks that may fail
FairFaultyExportSpec ==
  /\ FaultyExportSpec
  /\ WF_vars(FontsReady)
  /\ WF_vars(ImagesLoaded)
  /\ WF_vars(AudioResumed)
  /\ WF_vars(\E d \in 1..MaxAdvance : RenderLoop(d))
  /\ WF_vars(HoldElapses)
  /\ WF_vars(RecorderStops)

(***************************************************************************)
(* The splitter on its own: one text, one outcome of the provider call.    *)
(***************************************************************************)
WoodsText ==
  <<"T","h","e"," ","w","o","o","d","s"," ","a","r","e"," ","l","o","v","e","l","y",",",
    " ","d","a","r","k"," ","a","n","d"," ","d","e","e","p",","," ","b","u","t"," ","I",
    " ","h","a","v","e"," ","p","r","o","m","i","s","e","s"," ","t","o"," ","k","e","e",
    "p",".">>

\* longer texts, next to all the short ones
SampleTexts ==
  {WoodsText,
   Line(1) \o <<".", NL>> \o Line(2) \o <<".">>,
   <<" ">> \o Line(1) \o <<" ", ".", ".", "a", " ", NL>> \o Line(2) \o <<NL, " ", "a", " ">>}

SegInit ==
  /\ Init!1 /\ Init!2 /\ Init!3 /\ Init!4 /\ Init!5 /\ Init!6 /\ Init!7 /\ Init!8
  /\ Init!9 /\ Init!10 /\ Init!11 /\ Init!12 /\ Init!13 /\ Init!14 /\ Init!15
  /\ Init!16 /\ Init!17
  /\ segText \in TextsUpTo(MaxLen) \cup SampleTexts
  /\ segOutcome \in {Rejected} \cup {Resolved(r) : r \in SegResponses}
  /\ segResult = Throw
  /\ segDone = FALSE
  /\ Init!22 /\ Init!23 /\ Init!24 /\ Init!25 /\ Init!26 /\ Init!27 /\ ExportIdle
  /\ DecIdle /\ Init!30 /\ HookIdle /\ Init!32 /\ Init!33 /\ TextIdle

\* splitTextIntoSentences(segText) with the provider call ending as segOutcome
SegmentText ==
  /\ ~segDone
  /\ segResult' = splitTextIntoSentences(segText, segOutcome)
  /\ segDone' = TRUE
  /\ UNCHANGED <<segText, segOutcome, pipeVars, viewVars, exportVars, decVars, playVars, textVars>>

SegNext == SegmentText

SegSpec == SegInit /\ [][SegNext]_vars

(***************************************************************************)
(* The decoder on its own: one payload, decoded once.                      *)
(***************************************************************************)
\* the bytes payloads are made from, which give the 16-bit samples 0, 1, -1,
\* 255, 256, 32767, -32768 and more; payloads hold up to MaxBytes bytes
SampleBytes == {0, 1, 127, 128, 255}
MaxBytes == 4
ByteSeqs == UNION {[1..n -> SampleBytes] : n \in 0..MaxBytes}

\* window.btoa: the base64 of the bytes, padded
RECURSIVE btoa(_)
btoa(bytes) ==
  IF Len(bytes) >= 3
  THEN LET n == bytes[1] * 65536 + bytes[2] * 256 + bytes[3]
       IN <<B64Chars[n \div 262144 + 1], B64Chars[((n \div 4096) % 64) + 1],
            B64Chars[((n \div 64) % 64) + 1], B64Chars[(n % 64) + 1]>>
            \o btoa(SubSeq(bytes, 4, Len(bytes)))
  ELSE IF Len(bytes) = 2
  THEN LET n == (bytes[1] * 256 + bytes[2]) * 4
       IN <<B64Chars[n \div 4096 + 1], B64Chars[((n \div 64) % 64) + 1],
            B64Chars[(n % 64) + 1], "=">>
  ELSE IF Len(bytes) = 1
  THEN LET n == bytes[1] * 16
       IN <<B64Chars[n \div 64 + 1], B64Chars[(n % 64) + 1], "=", "=">>
  ELSE <<>>

\* the ways a payload is written: padded, without its padding, with white
\* space in it, followed by a character that is not base64, and followed by
\* one more base64 character
Forms == {"padded", "bare", "spaced", "broken", "dangling"}
Unpadded(chars) == SelectSeq(chars, LAMBDA c : c # "=")
PayloadOf(bytes, form) ==
  CASE form = "padded" -> btoa(bytes)
    [] form = "bare" -> Unpadded(btoa(bytes))
    [] form = "spaced" -> <<" ">> \o btoa(bytes) \o <<"\n">>
    [] form = "broken" -> btoa(bytes) \o <<"!">>
    [] form = "dangling" -> Unpadded(btoa(bytes)) \o <<"A">>

DecInit ==
  /\ Init!1 /\ Init!2 /\ Init!3 /\ Init!4 /\ Init!5 /\ Init!6 /\ Init!7 /\ Init!8
  /\ Init!9 /\ Init!10 /\ Init!11 /\ Init!12 /\ Init!13 /\ Init!14 /\ Init!15
  /\ Init!16 /\ Init!17 /\ Init!18 /\ Init!19 /\ Init!20 /\ Init!21
  /\ Init!22 /\ Init!23 /\ Init!24 /\ Init!25 /\ Init!26 /\ Init!27 /\ ExportIdle
  /\ srcBytes \in ByteSeqs
  /\ srcForm \in Forms
  /\ payload = PayloadOf(srcBytes, srcForm)
  /\ audioBuffer = Throw
  /\ decDone = FALSE
  /\ Init!30 /\ HookIdle /\ Init!32 /\ Init!33 /\ TextIdle

\* getAudioBufferFromBase64(payload, ctx) settles
DecodePayload ==
  /\ ~decDone
  /\ audioBuffer' = DecodeAudio(payload)
  /\ decDone' = TRUE
  /\ UNCHANGED <<srcBytes, srcForm, payload, pipeVars, segVars, viewVars, exportVars, playVars, textVars>>

DecNext == DecodePayload

DecodeSpec == DecInit /\ [][DecNext]_vars

(***************************************************************************)
(* handleDownloadVideo: the text layer of a slide, createTextCache.  A     *)
(* text is the sequence of the lengths of the words that split(' ') gives  *)
(* (<<0>> for the empty string), a line is its length in characters, and   *)
(* lengths on the canvas are in tenths of a pixel.                         *)
(***************************************************************************)
CanvasWidth == 1920
CanvasHeight == 1080

Tenths(px) == 10 * px

\* context.measureText(text).width for a text of len characters in a font of
\* fontSize pixels: every glyph of the font half as wide as the font is high
measureText(len, fontSize) == len * fontSize * 5

\* the loop of calculateLines from word k on
RECURSIVE WrapFrom(_, _, _, _, _, _)
WrapFrom(words, k, currentLine, out, fontSize, maxWidth) ==
  IF k > Len(words) THEN Append(out, currentLine)
  ELSE LET testLine == currentLine + 1 + words[k]
       IN IF measureText(testLine, fontSize) > maxWidth
          THEN WrapFrom(words, k + 1, words[k], Append(out, currentLine), fontSize, maxWidth)
          ELSE WrapFrom(words, k + 1, testLine, out, fontSize, maxWidth)

\* calculateLines(context, text, maxWidth), the font of the context being of
\* fontSize pixels
calculateLines(fontSize, text, maxWidth) ==
  IF text = <<0>> THEN <<>>
  ELSE WrapFrom(text, 2, text[1], <<>>, fontSize, maxWidth)

MAX_TEXT_WIDTH == Tenths(CanvasWidth \div 2 - 80)
MAX_TEXT_HEIGHT == Tenths(CanvasHeight - 80)

\* Math.floor(size * 0.85)
HindiFontSize(size) == (size * 85) \div 100

\* the layout that one iteration of the loop tries
Layout(slide, size) ==
  LET currentHindiFontSize == HindiFontSize(size)
      englishLineHeight == size * 13
      hindiLineHeight == currentHindiFontSize * 15
      tempEnglishLines == calculateLines(size, slide.english, MAX_TEXT_WIDTH)
      tempHindiLines == calculateLines(currentHindiFontSize, slide.hindi, MAX_TEXT_WIDTH)
  IN [finalEnglishFontSize |-> size,
      finalHindiFontSize |-> currentHindiFontSize,
      englishLines |-> tempEnglishLines,
      hindiLines |-> tempHindiLines,
      totalTextHeight |-> Len(tempEnglishLines) * englishLineHeight
                           + Len(tempHindiLines) * hindiLineHeight
                           + (IF Len(tempHindiLines) > 0 THEN Tenths(25) ELSE 0)]

\* (mutant) the search goes on to the smallest size that fits
SearchToTheEnd(slide, size) ==
  LET sizes == {z \in 10..size : z % 2 = 0 /\ Layout(slide, z).totalTextHeight <= MAX_TEXT_HEIGHT}
  IN IF sizes = {} THEN NoTextCache
     ELSE Layout(slide, CHOOSE z \in sizes : \A y \in sizes : z <= y)

\* for (size = ...; size >= 10; size -= 2) { ... if (calculatedHeight <=
\* MAX_TEXT_HEIGHT) { ...; break } }
RECURSIVE Search(_, _)
Search(slide, size) ==
  IF ~(size >= 10) THEN NoTextCache
  ELSE IF Layout(slide, size).totalTextHeight <= MAX_TEXT_HEIGHT THEN Layout(slide, size)
  ELSE Search(slide, size - 2)

\* createTextCache(slide): the sizes, the lines and the height it draws with
createTextCache(slide) == Search(slide, 48)

(***************************************************************************)
(* createTextCache on its own: one slide, given by its two texts.          *)
(***************************************************************************)
MaxWords == 18
WordLengths == {8, 36}
\* texts of words so long that each is a line of its own at every size
LongTexts == {[k \in 1..n |-> 170] : n \in {40, 45}}
Texts == {[k \in 1..n |-> w] : n \in 1..MaxWords, w \in WordLengths} \cup LongTexts

TextInit ==
  /\ Init!1 /\ Init!2 /\ Init!3 /\ Init!4 /\ Init!5 /\ Init!6 /\ Init!7 /\ Init!8
  /\ Init!9 /\ Init!10 /\ Init!11 /\ Init!12 /\ Init!13 /\ Init!14 /\ Init!15
  /\ Init!16 /\ Init!17 /\ Init!18 /\ Init!19 /\ Init!20 /\ Init!21
  /\ Init!22 /\ Init!23 /\ Init!24 /\ Init!25 /\ Init!26 /\ Init!27 /\ ExportIdle
  /\ DecIdle /\ Init!30 /\ HookIdle /\ Init!32 /\ Init!33
  /\ cacheSlide \in [english : Texts, hindi : Texts \cup {<<0>>}]
  /\ textCache = NoTextCache
  /\ cacheDone = FALSE

\* createTextCache(slide) returns
BuildTextCache ==
  /\ ~cacheDone
  /\ textCache' = createTextCache(cacheSlide)
  /\ cacheDone' = TRUE
  /\ UNCHANGED <<cacheSlide, pipeVars, segVars, viewVars, exportVars, decVars, playVars>>

TextNext == BuildTextCache

TextSpec == TextInit /\ [][TextNext]_vars


(***************************************************************************)
(* useWebAudioPlayer in SlideViewer, and the playback of the lesson.  The   *)
(* effects of the hook run after every render, so they belong to the step  *)
(* that changes what they depend on.  A buffer is named by its payload.    *)
(***************************************************************************)
\* the hook's state and refs, and the audio context of its module
Hk ==
  [data |-> base64AudioData, isLoading |-> isLoading, buffer |-> audioBufferRef,
   isPlaying |-> isPlaying, pending |-> pendingDecode, source |-> sourceNodeRef,
   sounding |-> sounding, resuming |-> resuming, fired |-> FALSE,
   ctx |-> sharedAudioContext]

\* at most MaxPendingPlays calls of play wait for the audio context at a time
MaxPendingPlays == 1

HkApply(h) ==
  /\ h.resuming <= MaxPendingPlays
  /\ base64AudioData' = h.data
  /\ isLoading' = h.isLoading
  /\ audioBufferRef' = h.buffer
  /\ isPlaying' = h.isPlaying
  /\ pendingDecode' = h.pending
  /\ sourceNodeRef' = h.source
  /\ sounding' = h.sounding
  /\ resuming' = h.resuming
  /\ onEndedFired' = h.fired
  /\ sharedAudioContext' = h.ctx

\* slide?.audioData || null, for the slide shown
AudioProp(sl, index) ==
  IF index < Len(sl) /\ HasAudio(sl[index + 1]) THEN sl[index + 1].audioData ELSE Null

\* lines 70-77
stop(h) ==
  IF h.source.on
  THEN [h EXCEPT !.source = NoSource, !.sounding = @ - 1, !.isPlaying = FALSE]
  ELSE [h EXCEPT !.isPlaying = FALSE]

\* (mutant) a new source is started without stopping the one that sounds
startSourceOverOld(h) ==
  [h EXCEPT !.source = [on |-> TRUE, buffer |-> h.buffer], !.sounding = @ + 1,
            !.isPlaying = TRUE]

\* lines 89-107: the sound that plays is stopped and a new source is started
\* on the buffer the hook holds at that moment
startSource(h) ==
  [stop(h) EXCEPT !.source = [on |-> TRUE, buffer |-> h.buffer], !.sounding = @ + 1,
                  !.isPlaying = TRUE]

\* lines 80-112, up to the await of audioContext.resume() when the context is
\* suspended
play(h, suspended) ==
  LET g == [h EXCEPT !.ctx = getSharedAudioContext(@)]
  IN IF g.buffer = Null \/ g.isLoading THEN g
     ELSE IF suspended THEN [g EXCEPT !.resuming = @ + 1]
     ELSE startSource(g)

\* (mutant) the decoding of the data that was replaced is not cancelled
LoadEffectUncancelled(h, data) ==
  IF data = h.data THEN h
  ELSE IF data = Null
  THEN [stop(h) EXCEPT !.data = data, !.buffer = Null, !.isLoading = FALSE]
  ELSE [stop(h) EXCEPT !.data = data, !.buffer = Null,
                       !.pending = IF @ = Null THEN data ELSE @, !.isLoading = TRUE,
                       !.ctx = getSharedAudioContext(@)]

\* lines 115-146: the effect that loads new audio data, up to the decoding
LoadEffect(h, data) ==
  IF data = h.data THEN h
  ELSE IF data = Null
  THEN [stop(h) EXCEPT !.data = data, !.buffer = Null, !.pending = Null,
                       !.isLoading = FALSE]
  ELSE [stop(h) EXCEPT !.data = data, !.buffer = Null, !.pending = data,
                       !.isLoading = TRUE, !.ctx = getSharedAudioContext(@)]

\* lines 149-155: the effect that drives auto-play
DriverEffect(h, shouldBePlaying, suspended) ==
  IF shouldBePlaying /\ ~h.isPlaying /\ ~h.isLoading /\ h.buffer # Null
  THEN play(h, suspended)
  ELSE IF ~shouldBePlaying /\ h.isPlaying THEN stop(h)
  ELSE h

\* both effects after a render that shows slide index in lesson state ls
Effects(h, sl, index, ls, suspended) ==
  DriverEffect(LoadEffect(h, AudioProp(sl, index)), ls = "playing", suspended)

\* the buffer decoded from the payload, or none when the decoding fails
BufferOf(data) ==
  IF data = Null \/ getAudioBufferFromBase64(data).thrown THEN Null ELSE data

\* lines 128-146: the decoding that is not cancelled settles
Decoded(h) ==
  [h EXCEPT !.buffer = BufferOf(h.pending), !.pending = Null, !.isLoading = FALSE]

\* a render with a new slide index and lesson state, and the effects after it;
\* the audio context may be suspended when play looks at it
View(index, ls, h) ==
  /\ currentSlideIndex' = index
  /\ lessonState' = ls
  /\ \E suspended \in BOOLEAN : HkApply(Effects(h, slides, index, ls, suspended))
  /\ UNCHANGED <<pipeVars, segVars, flagVars, regens, regenCount, exportVars, decVars, textVars>>

\* Controls: isLessonReady; SlideViewer: isPlaybackDisabled
IsLessonReady == slides # <<>> /\ generationState = "done"
IsPlaybackDisabled == isGeneratingVideo \/ isLoading

\* startLesson, lines 152-159
StartLessonBody ==
  /\ slides # <<>>
  /\ View(IF lessonState = "finished" THEN 0 ELSE currentSlideIndex, "playing", Hk)

\* the Start Lesson / Resume button of Controls
StartLesson ==
  /\ lessonState # "playing"
  /\ IsLessonReady
  /\ StartLessonBody

\* the Pause button of Controls: pauseLesson
PauseLesson ==
  /\ lessonState = "playing"
  /\ slides # <<>>
  /\ generationState \notin Loading
  /\ View(currentSlideIndex, "paused", Hk)

\* the play/pause buttons of SlideViewer: handlePlayPause
HandlePlayPause ==
  /\ currentSlideIndex < Len(slides)
  /\ HasAudio(CurrentSlide)
  /\ ~isGeneratingVideo
  /\ IF lessonState = "playing" THEN View(currentSlideIndex, "paused", Hk)
     ELSE StartLessonBody

\* the replay button of SlideViewer: handleReplay
HandleReplay ==
  /\ currentSlideIndex < Len(slides)
  /\ HasAudio(CurrentSlide)
  /\ ~IsPlaybackDisabled
  /\ \E suspended \in BOOLEAN :
       HkApply(DriverEffect(play(Hk, suspended), lessonState = "playing", suspended))
  /\ UNCHANGED <<pipeVars, segVars, viewVars, exportVars, decVars, lessonState, textVars>>

\* the next and previous buttons of SlideViewer, with the hook's effects
OnNext ==
  /\ currentSlideIndex < Len(slides) - 1
  /\ ~IsPlaybackDisabled
  /\ View(currentSlideIndex + 1, "paused", Hk)

OnPrev ==
  /\ currentSlideIndex > 0
  /\ ~IsPlaybackDisabled
  /\ View(currentSlideIndex - 1, "paused", Hk)

\* the promise of getAudioBufferFromBase64 settles
PlayerDecoded ==
  /\ pendingDecode # Null
  /\ \E suspended \in BOOLEAN :
       HkApply(DriverEffect(Decoded(Hk), lessonState = "playing", suspended))
  /\ UNCHANGED <<pipeVars, segVars, viewVars, exportVars, decVars, lessonState, textVars>>

\* audioContext.resume() resolves for a call of play: lines 89-107
PlayResumes ==
  /\ resuming > 0
  /\ \E suspended \in BOOLEAN :
       HkApply(DriverEffect(startSource([Hk EXCEPT !.resuming = @ - 1]),
                            lessonState = "playing", suspended))
  /\ UNCHANGED <<pipeVars, segVars, viewVars, exportVars, decVars, lessonState, textVars>>

\* lines 96-103: onended of the source the hook refers to
ended(h) ==
  [h EXCEPT !.source = NoSource, !.sounding = @ - 1, !.isPlaying = FALSE, !.fired = TRUE]

\* the source that sounds reaches the end of its buffer: source.onended, and
\* handleNextSlide (lines 128-134)
SourceEnded ==
  /\ sourceNodeRef.on
  /\ IF currentSlideIndex < Len(slides) - 1
     THEN View(currentSlideIndex + 1, lessonState, ended(Hk))
     ELSE View(currentSlideIndex, "finished", ended(Hk))

\* finished lessons to play and export
PlayLessons ==
  {LessonOf(<<"pcm10", "pcm05">>), LessonOf(<<"pcm10", Null, "pcm10">>),
   LessonOf(<<"bad", "pcm05">>), LessonOf(<<Null, "pcm10">>)}

\* the finished lesson slides on screen, the audio of its first slide loaded
LessonOnScreen ==
  /\ ExportInit!2 /\ ExportInit!3 /\ ExportInit!4 /\ ExportInit!5 /\ ExportInit!6
  /\ ExportInit!7 /\ ExportInit!8 /\ ExportInit!9 /\ ExportInit!10 /\ ExportInit!11
  /\ ExportInit!12 /\ ExportInit!13 /\ ExportInit!14 /\ ExportInit!15
  /\ ExportInit!16 /\ ExportInit!17
  /\ Init!18 /\ Init!19 /\ Init!20 /\ Init!21
  /\ Init!22 /\ Init!23 /\ Init!24 /\ Init!25 /\ Init!26 /\ Init!27
  /\ ExportIdle
  /\ DecIdle
  /\ lessonState = "idle"
  /\ base64AudioData = AudioProp(slides, 0)
  /\ isLoading = FALSE
  /\ audioBufferRef = BufferOf(AudioProp(slides, 0))
  /\ isPlaying = FALSE
  /\ pendingDecode = Null
  /\ sourceNodeRef = NoSource
  /\ sounding = 0
  /\ resuming = 0
  /\ onEndedFired = FALSE
  /\ sharedAudioContext =
       IF AudioProp(slides, 0) = Null THEN NoContext ELSE getSharedAudioContext(NoContext)
  /\ Init!32 /\ Init!33 /\ TextIdle

PlayInit == slides \in PlayLessons /\ LessonOnScreen

PlayNext ==
  \/ StartLesson
  \/ PauseLesson
  \/ HandlePlayPause
  \/ HandleReplay
  \/ OnNext
  \/ OnPrev
  \/ PlayerDecoded
  \/ PlayResumes
  \/ SourceEnded
  \/ HandleDownloadVideo
  \/ FontsReady
  \/ ImagesLoaded
  \/ AudioResumed
  \/ \E d \in 0..MaxAdvance : RenderLoop(d)
  \/ HoldElapses
  \/ RecorderStops

\* playback and export of a finished lesson
PlaybackSpec == PlayInit /\ [][PlayNext]_vars

\* the player on its own, under the buttons of the viewer and of Controls
PlayerNext ==
  \/ StartLesson
  \/ PauseLesson
  \/ HandlePlayPause
  \/ HandleReplay
  \/ OnNext
  \/ OnPrev
  \/ PlayerDecoded
  \/ PlayResumes
  \/ SourceEnded

\* any of the lessons on screen
PlayerInit == slides \in ExportLessons \cup PlayLessons /\ LessonOnScreen

PlayerSpec == PlayerInit /\ [][PlayerNext]_vars

\* a lesson that is started and then left alone
AutoPlayNext ==
  \/ StartLesson
  \/ PlayerDecoded
  \/ PlayResumes
  \/ SourceEnded

AutoPlaySpec == PlayerInit /\ [][AutoPlayNext]_vars

\* every decoding settles, the audio context resumes, and a source that
\* plays a buffer reaches its end
FairAutoPlaySpec ==
  /\ AutoPlaySpec
  /\ WF_vars(PlayerDecoded)
  /\ WF_vars(PlayResumes)
  /\ WF_vars(SourceEnded /\ sourceNodeRef.buffer # Null)


(***************************************************************************)
(* Properties of the pipeline (specification Spec).                        *)
(***************************************************************************)
Running == pc # "none"
Returned == last.fn # "none"
AllSpace(t) == \A k \in 1..Len(t) : IsSpace(t[k])

\* C1: withRetry invokes the operation at most 3 times; it waits 2000 after a
\* failed attempt 1 and 4000 after a failed attempt 2; the first success is
\* returned with no further attempt; a failed attempt 3 is rethrown at once,
\* with no third wait.
C1_RetryPolicy ==
  /\ calls <= 3
  /\ \A r \in outstanding : r.attempt = calls /\ calls = attempt + 1
  /\ timer.kind = "backoff" =>
       /\ outstanding = {}
       /\ calls = attempt
       /\ \/ attempt = 1 /\ timer.ms = 2000 /\ waits = <<2000>>
          \/ attempt = 2 /\ timer.ms = 4000 /\ waits = <<2000, 4000>>
  /\ Returned =>
       /\ timer.kind # "backoff"
       /\ \A r \in outstanding : r.attempt = 1
       /\ IF last.o.thrown
          THEN last.calls = 3 /\ last.waits = <<2000, 4000>>
          ELSE /\ last.calls \in 1..3
               /\ last.waits = SubSeq(<<2000, 4000>>, 1, last.calls - 1)

\* an operation gave up after three failed attempts
C1_Witness == Returned /\ last.o.thrown /\ last.calls = 3 /\ last.waits = <<2000, 4000>>

Rank(g) ==
  CASE g = "idle" -> 0
    [] g = "processing" -> 1
    [] g \in {"translating", "explaining"} -> 2
    [] g = "imaging" -> 3
    [] g = "narrating" -> 4
    [] g = "done" -> 5
    [] g = "error" -> 6

\* C2: during a run the generation state never moves to an earlier stage of
\* idle, processing, translating/explaining, imaging, narrating, done; a run
\* starts in processing; error is entered from processing only.
C2_StagesForward ==
  [][/\ Running /\ generationState' # "error" => Rank(generationState') >= Rank(generationState)
     /\ generationState' = "error" /\ generationState # "error" => generationState = "processing"
     /\ ~Running /\ Running' => generationState' = "processing"
     /\ Running => generationState \in Loading]_vars

\* a run over two segments reached done
C2_Witness == generationState = "done" /\ Len(slides) = 2 /\ autoGenerateExplanation

\* C3: when segmentation yields no segment the run ends in error with the
\* progress cleared and no slide, and nothing but the segmentation was ever
\* requested in it.
C3_NoSegments ==
  /\ Returned /\ last.fn = "segment" /\ Len(last.ret.val) = 0 => generationState = "error"
  /\ generationState = "error" =>
       /\ generationProgress = NoProgress
       /\ slides = <<>>
       /\ issued = {"segment"}
       /\ outstanding = {}
       /\ timer = NoTimer
       /\ ~Running

\* the fallback splitter found nothing worth a slide
C3_Witness ==
  /\ generationState = "error"
  /\ Returned /\ last.fn = "segment" /\ last.o.thrown /\ last.ret.val = <<>>

SlidesCarryLines ==
  /\ Len(slides) = Len(lines)
  /\ \A k \in 1..Len(lines) : slides[k].english = lines[k]

\* C4: once segmentation has produced N >= 1 segments the run reaches done,
\* whichever calls fail, and at done there are N slides, the i-th carrying
\* segment i.
C4_ReachesDone ==
  /\ [](Returned /\ last.fn = "segment" /\ last.ret.val # <<>> =>
          lines = last.ret.val /\ generationState = "translating")
  /\ [](generationState = "done" => lines # <<>> /\ SlidesCarryLines)
  /\ [](Running /\ lines # <<>> => <>(generationState = "done"))

\* done, with a failed translation, a failed image and a failed narration
C4_Witness ==
  /\ generationState = "done"
  /\ Len(slides) = 2
  /\ slides[1].hindi = TranslateSentinel
  /\ slides[2].script = ExplainSentinel
  /\ slides[1].imageUrl = Null
  /\ slides[2].audioData = Null

HasInline(parts) == \E k \in 1..Len(parts) : parts[k].inlineData # Null

\* C5: translate, explain, image and speech never throw; when the call fails
\* after its retries translate and explain return their sentinel and image
\* and speech return null; image returns null for a response without an image.
C5_NeverThrows ==
  Returned /\ last.fn # "segment" =>
    /\ ~last.ret.thrown
    /\ last.o.thrown =>
         last.ret.val = CASE last.fn = "translate" -> TranslateSentinel
                          [] last.fn = "explain" -> ExplainSentinel
                          [] last.fn \in {"image", "speech"} -> Null
    /\ last.fn = "image" /\ ~last.o.thrown /\ ~HasInline(last.o.resp) => last.ret.val = Null

\* the image call failed three times
C5_Witness == Returned /\ last.fn = "image" /\ last.o.thrown /\ last.ret.val = Null

\* C6: a run never has two requests outstanding, and none while it sleeps.
C6_OneRequest ==
  /\ Cardinality(outstanding) <= 1
  /\ outstanding # {} => timer = NoTimer
  /\ Running => (outstanding # {}) # (timer # NoTimer)

\* the third attempt of the image request of the second slide is in flight
C6_Witness == \E r \in outstanding : r.fn = "image" /\ r.idx = 1 /\ r.attempt = 3


\* C10: a blank script is never sent to the speech provider and leaves the
\* slide without audio; with explanations disabled the run requests no speech
\* at all and every slide ends without audio.
C10_BlankScriptNoSpeech ==
  /\ \A r \in outstanding : r.fn = "speech" => ~AllSpace(r.arg)
  /\ generationState \in {"narrating", "done"} =>
       \A k \in 1..Len(slides) : AllSpace(slides[k].script) => slides[k].audioData = Null
  /\ generationState \in Loading \cup {"done"} /\ ~autoGenerateExplanation =>
       /\ "speech" \notin issued
       /\ \A k \in 1..Len(slides) : slides[k].audioData = Null /\ AllSpace(slides[k].script)

\* a run without explanations is done: two slides, neither with audio
C10_Witness ==
  /\ generationState = "done" /\ ~autoGenerateExplanation
  /\ Len(slides) = 2 /\ issued = {"segment", "translate", "image"}

(***************************************************************************)
(* Properties of the splitter (specification SegSpec), stated without the  *)
(* operators that compute it.                                              *)
(***************************************************************************)
Separator(c) == c \in {"\n", "."}
Whitespace(c) == c \in {" ", "\n", "\t", "\r"}
Blank(t) == \A k \in 1..Len(t) : Whitespace(t[k])

\* the maximal stretches of text without a separator, as <<first, last>>
Stretches(text) ==
  {r \in (1..Len(text)) \X (1..Len(text)) :
     /\ r[1] <= r[2]
     /\ \A k \in r[1]..r[2] : ~Separator(text[k])
     /\ r[1] = 1 \/ Separator(text[r[1] - 1])
     /\ r[2] = Len(text) \/ Separator(text[r[2] + 1])}

\* the length of text[a..b] without its leading and trailing whitespace
TrimmedLen(text, a, b) ==
  LET solid == {k \in a..b : ~Whitespace(text[k])}
  IN IF solid = {} THEN 0
     ELSE (CHOOSE k \in solid : \A j \in solid : j <= k)
          - (CHOOSE k \in solid : \A j \in solid : k <= j) + 1

LongStretches(text) == {r \in Stretches(text) : TrimmedLen(text, r[1], r[2]) > 2}

\* val lists the long stretches of text from left to right
IsFallbackOf(val, text) ==
  /\ Len(val) = Cardinality(LongStretches(text))
  /\ \A r \in LongStretches(text) :
       val[1 + Cardinality({q \in LongStretches(text) : q[1] < r[1]})]
         = SubSeq(text, r[1], r[2])

\* the provider answered with an array of strings
ValidAnswer(o) ==
  /\ ~o.thrown
  /\ o.resp.kind = "json"
  /\ o.resp.isArray
  /\ \A k \in 1..Len(o.resp.items) : o.resp.items[k].isString

SolidItems(items) == {k \in 1..Len(items) : ~Blank(items[k].str)}

\* val lists the entries of items that are not blank, in their order
IsSolidPartOf(val, items) ==
  /\ Len(val) = Cardinality(SolidItems(items))
  /\ \A k \in SolidItems(items) :
       val[1 + Cardinality({j \in SolidItems(items) : j < k})] = items[k].str

\* C7: segmentText never throws; unless the provider answers with an array
\* of strings the result is the text split on runs of newlines and periods
\* without the fragments of trimmed length <= 2; otherwise it is the
\* provider's array without its blank entries.
C7_SegmentResult ==
  segDone =>
    /\ ~segResult.thrown
    /\ IF ValidAnswer(segOutcome)
       THEN IsSolidPartOf(segResult.val, segOutcome.resp.items)
       ELSE IsFallbackOf(segResult.val, segText)

\* the fallback returned two fragments and dropped others
C7_Witness ==
  /\ segDone /\ segOutcome.thrown
  /\ Len(segResult.val) = 2
  /\ Cardinality(Stretches(segText)) > 2

EntriesSolid(val) == \A k \in 1..Len(val) : ~Blank(val[k])
EntriesLong(val) == \A k \in 1..Len(val) : Len(val[k]) > 2

\* C8 as stated: every non-empty text gives a non-empty sequence of non-blank
\* strings, and the fallback's output has no blank entry and no entry of 2
\* characters or fewer.
C8_Original ==
  segDone /\ segText # <<>> =>
    /\ ~segResult.thrown
    /\ Len(segResult.val) >= 1
    /\ EntriesSolid(segResult.val)
    /\ segOutcome.thrown => EntriesSolid(segResult.val) /\ EntriesLong(segResult.val)

\* C8 as amended: the result is a sequence of non-blank strings that may be
\* empty: it is empty exactly when the provider's array has no non-blank entry
\* or the fallback finds no fragment longer than 2 characters after trimming;
\* the fallback's output has no blank entry and no entry of 2 characters or
\* fewer.
C8_SolidEntries ==
  segDone =>
    /\ ~segResult.thrown
    /\ EntriesSolid(segResult.val)
    /\ segResult.val = <<>> <=>
         IF ValidAnswer(segOutcome) THEN SolidItems(segOutcome.resp.items) = {}
         ELSE LongStretches(segText) = {}
    /\ ~ValidAnswer(segOutcome) => EntriesLong(segResult.val)

\* a text that is not empty, and no segment
C8_Witness ==
  /\ segDone /\ segOutcome.thrown
  /\ segText # <<>> /\ ~Blank(segText)
  /\ segResult.val = <<>>

\* C9 as stated: with the provider failing, the woods sentence gives exactly
\* two segments.
C9_Original ==
  segDone /\ segText = WoodsText /\ segOutcome.thrown => Len(segResult.val) = 2

\* C9 as amended: with the provider failing, the woods sentence gives exactly
\* one segment, the sentence without its final period.
C9_WoodsOneSegment ==
  segDone /\ segText = WoodsText /\ segOutcome.thrown =>
    segResult.val = <<SubSeq(WoodsText, 1, Len(WoodsText) - 1)>>

\* the fallback has split the woods sentence
C9_Witness == segDone /\ segText = WoodsText /\ segOutcome.thrown /\ ~segResult.thrown

(***************************************************************************)
(* Properties of the lesson (specification LessonSpec).                    *)
(***************************************************************************)
\* the ids are 0, 1, 2, ... in the order of the sequence
IdsMatchPositions(sl) == \A k \in 1..Len(sl) : sl[k].id = k - 1

\* sl2 is sl1, possibly with slides appended: nothing removed, nothing moved,
\* no source text changed
Extends(sl1, sl2) ==
  /\ Len(sl2) >= Len(sl1)
  /\ \A k \in 1..Len(sl1) : sl2[k].id = sl1[k].id /\ sl2[k].english = sl1[k].english

\* the step ends the lesson: Start New Lesson, the only way back to idle
LessonEnds == generationState # "idle" /\ generationState' = "idle"

\* C11: in every reachable state slides[i].id = i for every position i; within
\* one lesson the slide sequence only grows at its end, and an existing slide
\* is never removed, reordered or given another source text.
C11_SlidesAppendOnly ==
  /\ [](IdsMatchPositions(slides))
  /\ [][LessonEnds \/ Extends(slides, slides')]_vars

\* the translation of the first slide was regenerated while the second slide's
\* image was being generated
C11_Witness ==
  /\ generationState = "imaging" /\ Len(slides) = 2 /\ i = 1
  /\ slides[1].hindi = TranslateSentinel
  /\ newSlides[1].hindi # TranslateSentinel
  /\ regens = {} /\ regenCount = 1

(***************************************************************************)
(* Properties of the export (specifications ExportSpec and FairExportSpec). *)
(***************************************************************************)
\* the timeline of this export has been built
TimelineBuilt == epc \in {"images", "resume", "render", "hold", "stopping"}

RECURSIVE SumOfDurations(_)
SumOfDurations(events) ==
  IF events = <<>> THEN 0 ELSE Head(events).duration + SumOfDurations(Tail(events))

\* C12: the timeline starts at 0, every event starts where the one before it
\* ends, and totalDuration is the sum of the durations of all events.
C12_TimelineContiguous ==
  TimelineBuilt =>
    /\ timeline # <<>>
    /\ timeline[1].startTime = 0
    /\ \A k \in 1..(Len(timeline) - 1) :
         timeline[k + 1].startTime = timeline[k].startTime + timeline[k].duration
    /\ totalDuration = SumOfDurations(timeline)

\* a timeline of three slides of different durations
C12_Witness ==
  /\ TimelineBuilt /\ Len(timeline) = 5
  /\ timeline[1].duration = 15 /\ timeline[3].duration = 30 /\ timeline[5].duration = 45
  /\ timeline[5].startTime = 45

\* C13: N >= 1 slides give 2N-1 events; event 2i is the SlideEvent of slide i,
\* event 2i+1 the TransitionEvent from slide i to slide i+1, and the last event
\* is a SlideEvent.
C13_TimelineAlternates ==
  TimelineBuilt =>
    /\ Len(slides) >= 1
    /\ Len(timeline) = 2 * Len(slides) - 1
    /\ \A j \in 0..(Len(timeline) - 1) :
         IF j % 2 = 0
         THEN timeline[j + 1].type = "slide" /\ timeline[j + 1].index = j \div 2
         ELSE /\ timeline[j + 1].type = "transition"
              /\ timeline[j + 1].from = (j - 1) \div 2
              /\ timeline[j + 1].to = (j - 1) \div 2 + 1
    /\ timeline[Len(timeline)].type = "slide"
    /\ timeline[Len(timeline)].index = Len(slides) - 1

\* the timeline of two slides is being rendered: slide, transition, slide
C13_Witness ==
  /\ epc = "render" /\ Len(slides) = 2 /\ Len(timeline) = 3
  /\ timeline[2].type = "transition" /\ timeline[2].from = 0 /\ timeline[2].to = 1

\* the narration payloads of the slides
AudioOf(sl) == [k \in 1..Len(sl) |-> sl[k].audioData]

\* C14: a slide lasts its narration + 0.5 when the narration is longer than
\* 0.5, and 3.0 when there is no narration or it lasts 0.5 or less (0.2 -> 3.0,
\* 0.5 -> 3.0, 2.0 -> 2.5); narrations of 1.0, 0.3 and 4.0 give slides of 1.5,
\* 3.0 and 4.5 and a timeline of 9.0.  (Tenths of a second.)
C14_SlideDurations ==
  TimelineBuilt =>
    /\ Len(slideDurations) = Len(slides)
    /\ \A k \in 1..Len(slides) :
         LET a == slides[k].audioData
         IN IF a \in {Null, ""} THEN slideDurations[k] = 30
            ELSE /\ a \in PcmPayloads
                 /\ IF PcmTenths(a) > 5 THEN slideDurations[k] = PcmTenths(a) + 5
                    ELSE slideDurations[k] = 30
    /\ AudioOf(slides) = <<"pcm02", "pcm05", "pcm20">> => slideDurations = <<30, 30, 25>>
    /\ AudioOf(slides) = <<"pcm10", "pcm03", "pcm40">> =>
         slideDurations = <<15, 30, 45>> /\ totalDuration = 90

\* the lesson with narrations of 1.0, 0.3 and 4.0 has been rendered to its end
C14_Witness ==
  /\ AudioOf(slides) = <<"pcm10", "pcm03", "pcm40">>
  /\ epc = "hold" /\ lastFrame.elapsed >= 90

\* event e covers the time t
Contains(e, t) == e.startTime <= t /\ t < e.startTime + e.duration

\* the events of the timeline that cover t
Covering(t) == {k \in 1..Len(timeline) : Contains(timeline[k], t)}

\* C15: for every elapsed in [0, totalDuration) the scan selects exactly one
\* event, the SlideEvent that contains elapsed; transitions last 0, so no
\* TransitionEvent is ever selected and no transition frame is ever drawn.
C15_ScanSelectsSlideEvent ==
  TimelineBuilt =>
    /\ \A t \in 0..(totalDuration - 1) :
         /\ Cardinality(Covering(t)) = 1
         /\ \A k \in Covering(t) :
              timeline[k].type = "slide" /\ FindEvent(timeline, 1, t) = k
    /\ \A t \in 0..(totalDuration + MaxAdvance * ClockQuantum) :
         LET k == FindEvent(timeline, 1, t)
         IN k # 0 => timeline[k].type = "slide"
    /\ lastFrame.kind # "transition"
    /\ (lastFrame # NoFrame /\ lastFrame.elapsed < totalDuration) =>
         /\ lastFrame.kind = "slide"
         /\ Len(lastFrame.draws) = 1
         /\ \A k \in Covering(lastFrame.elapsed) :
              lastFrame.draws[1].index = timeline[k].index

\* a frame drawn at the very time the second slide starts shows the second slide
C15_Witness ==
  /\ epc = "render" /\ Len(timeline) >= 3
  /\ lastFrame.kind = "slide"
  /\ lastFrame.elapsed = timeline[3].startTime
  /\ lastFrame.draws[1].index = 1

\* the last slide in its final state: full progress, the whole of its
\* duration elapsed, and the watermark faded out
FinalDraw ==
  [index |-> Len(slides) - 1, slideProgress |-> One, isFirstSlide |-> FALSE,
   isLastSlide |-> TRUE, elapsedSinceSlideStart |-> slideDurations[Len(slides)],
   slideDuration |-> slideDurations[Len(slides)],
   watermarkAlpha |-> <<0, WatermarkFadeDuration>>]

\* a step taken while the loop runs is one call of renderLoop, which drew
\* lastFrame'
TickStep ==
  epc = "render" =>
    /\ raf = 1
    /\ IF lastFrame'.elapsed < totalDuration
       THEN raf' = 1 /\ completions' = completions /\ epc' = "render"
       ELSE /\ lastFrame'.kind = "last"
            /\ lastFrame'.draws = <<FinalDraw>>
            /\ raf' = 0
            /\ completions' = completions + 1
            /\ epc' = "hold"

\* C16: a tick with elapsed < totalDuration schedules exactly one next tick;
\* the first tick with elapsed >= totalDuration draws the last slide in its
\* final state, schedules no tick and signals completion, which happens once;
\* and when the audio clock keeps advancing the loop eventually completes.
C16_LoopTerminates ==
  /\ [][TickStep]_vars
  /\ [](completions <= 1)
  /\ [](epc \in {"hold", "stopping"} => raf = 0 /\ completions = 1)
  /\ (epc = "render" ~> completions = 1)

\* the loop has completed on a frame at or after the end of the timeline
C16_Witness ==
  /\ epc = "hold" /\ completions = 1 /\ raf = 0
  /\ lastFrame.kind = "last" /\ lastFrame.elapsed >= totalDuration
  /\ Len(slides) >= 2

\* the phases of a successful export, in order
PhaseOrder == <<"assets", "recorder.start", "frames", "complete", "recorder.stop", "file">>

IsPrefix(p, q) == Len(p) <= Len(q) /\ \A k \in 1..Len(p) : p[k] = q[k]

\* the image and the text layer of every slide are there
AssetsReady ==
  /\ Len(preloadedImages) = Len(slides)
  /\ Len(preloadedTextCaches) = Len(slides)
  /\ \A k \in 1..Len(slides) : preloadedTextCaches[k] = slides[k].id

\* C17: an export goes through its phases in order: images loaded and text
\* layers built, recorder started, frames rendered, recorder stopped only after
\* the loop completed, file produced only after the recorder stopped, and
\* exactly once in a successful export.
C17_PhaseOrder ==
  /\ IsPrefix(phases, PhaseOrder)
  /\ downloads <= 1
  /\ recorder \in {"recording", "stopping", "stopped"} => AssetsReady
  /\ recorder = "recording" <=> (Len(phases) \in 2..4)
  /\ lastFrame # NoFrame => Len(phases) >= 3 /\ recorder # "inactive"
  /\ recorder \in {"stopping", "stopped"} => completions = 1 /\ Len(phases) >= 5
  /\ downloads = 1 <=> (recorder = "stopped" /\ phases = PhaseOrder)
  /\ (epc = "idle" /\ alertShown = "none" /\ phases # <<>>) =>
       phases = PhaseOrder /\ downloads = 1

\* a successful export of three slides has ended with its one file
C17_Witness ==
  /\ epc = "idle" /\ ~isGeneratingVideo /\ alertShown = "none"
  /\ phases = PhaseOrder /\ downloads = 1 /\ recorder = "stopped"
  /\ Len(slides) = 3

\* the audio sources started for the slide at position k
SourcesOf(k) == {j \in 1..Len(sources) : sources[j].index = k - 1}

\* the scheduling of lines 475-486 has run in this export
AudioScheduled == epc \in {"resume", "render", "hold", "stopping"}

\* C18: for every slide with narration exactly one audio source is started, at
\* audioStartOffset + the startTime of the slide's SlideEvent; a slide without
\* narration gets none; and all of it happens before the first render tick.
C18_AudioScheduled ==
  /\ (raf > 0 \/ lastFrame # NoFrame) => (AudioScheduled \/ epc = "idle")
  /\ ~(AudioScheduled \/ epc = "idle") => sources = <<>>
  /\ (AudioScheduled \/ (epc = "idle" /\ lastFrame # NoFrame)) =>
       /\ \A j \in 1..Len(sources) : sources[j].index \in 0..(Len(slides) - 1)
       /\ \A k \in 1..Len(slides) :
            IF slides[k].audioData \in {Null, ""}
            THEN SourcesOf(k) = {}
            ELSE /\ Cardinality(SourcesOf(k)) = 1
                 /\ \A j \in SourcesOf(k) :
                      sources[j].when = audioStartOffset + timeline[2 * k - 1].startTime

\* before the first frame of a lesson whose first slide has no narration, with
\* the clock already running: one source, for the second slide
C18_Witness ==
  /\ epc = "render" /\ raf = 1 /\ lastFrame = NoFrame
  /\ AudioOf(slides) = <<"", "pcm20">>
  /\ audioStartOffset = ClockQuantum
  /\ sources = <<[index |-> 1, when |-> ClockQuantum + 30]>>

\* C19: which slide is drawn, and the elapsed time and progress inside its
\* event, depend only on the elapsed time of the audio clock: any two frames of
\* the lesson drawn at the same elapsed time, in the same export or in two
\* exports with different clock offsets, callback timestamps and image loads,
\* show the same slide at the same progress.
C19_FrameDependsOnElapsed ==
  (probe # NoProbe /\ lastFrame # NoFrame /\ lastFrame.elapsed = probe.frame.elapsed) =>
    /\ lastFrame.kind = probe.frame.kind
    /\ lastFrame.progress = probe.frame.progress
    /\ lastFrame.draws = probe.frame.draws

\* a frame of a later export at the elapsed time of a frame kept from an
\* earlier one, inside the second slide
C19_Witness ==
  /\ probe # NoProbe /\ probe.old
  /\ lastFrame.kind = "slide"
  /\ lastFrame.elapsed = probe.frame.elapsed
  /\ lastFrame.draws[1].index = 1
  /\ lastFrame.draws[1].elapsedSinceSlideStart > 0
  /\ audioStartOffset = ClockQuantum

\* the export has been given up with a message to the user
Aborted == alertShown # "none"

\* a click on Download Video either aborts at once, for an unsupported
\* encoding, or starts the export
ClickStep ==
  epc = "idle" =>
    \/ epc' = "fonts" /\ isGeneratingVideo' /\ alertShown' = "none"
    \/ epc' = "idle" /\ ~isGeneratingVideo' /\ alertShown' = "unsupported"

\* after the fonts the canvas gives a drawing context, or the export aborts
\* with no recorder made
SurfaceStep ==
  epc = "fonts" =>
    \/ recorder' = "inactive" /\ epc' = "images" /\ alertShown' = "none"
    \/ epc' = "idle" /\ ~isGeneratingVideo' /\ alertShown' = "error"

\* C20: when the encoding is not supported or the canvas gives no drawing
\* context the export aborts with a message to the user: the recorder is never
\* started, no file is downloaded and isGeneratingVideo is false again.
C20_AbortsCleanly ==
  /\ [][ClickStep /\ SurfaceStep]_vars
  /\ [](Aborted =>
          /\ epc = "idle"
          /\ ~isGeneratingVideo
          /\ recorder \in {"none", "inactive"}
          /\ "recorder.start" \notin {phases[k] : k \in 1..Len(phases)}
          /\ lastFrame = NoFrame
          /\ downloads = 0)
  /\ [](alertShown = "unsupported" => recorder = "none" /\ phases = <<>>)

\* the canvas gave no drawing context: the message is shown, no recorder exists
C20_Witness ==
  /\ alertShown = "error" /\ recorder = "none"
  /\ epc = "idle" /\ ~isGeneratingVideo /\ downloads = 0

\* the slide has a narration payload that does not decode
Undecodable(slide) == HasAudio(slide) /\ getAudioBufferFromBase64(slide.audioData).thrown

\* C21: a narration payload that fails to decode does not abort the export:
\* its slide counts as one without audio (default duration, no source
\* scheduled), and the export still renders to its end and produces the file.
C21_DecodeFailureTolerated ==
  (\E k \in 1..Len(slides) : Undecodable(slides[k])) =>
    /\ ~(alertShown = "error" /\ recorder = "inactive")
    /\ TimelineBuilt =>
         \A k \in 1..Len(slides) :
           Undecodable(slides[k]) => slideDurations[k] = DefaultDuration
    /\ AudioScheduled =>
         \A k \in 1..Len(slides) : Undecodable(slides[k]) => SourcesOf(k) = {}
    /\ (epc = "idle" /\ recorder # "none") => downloads = 1

(***************************************************************************)
(* Properties of the decoder (specification DecodeSpec).                   *)
(***************************************************************************)
\* the payload is base64 of srcBytes, with or without padding and white space
WellFormed == srcForm \in {"padded", "bare", "spaced"}

\* C22: decoding a payload whose decoded byte length is odd fails with an
\* error and gives no audio buffer; the trailing byte is not silently dropped.
C22_OddLengthRejected ==
  (decDone /\ WellFormed /\ Len(srcBytes) % 2 = 1) => audioBuffer.thrown

\* three bytes, padded: one whole sample and a trailing byte
C22_Witness ==
  /\ decDone /\ srcForm = "padded" /\ srcBytes = <<1, 0, 255>>
  /\ payload = <<"A", "Q", "D", "/">>
  /\ audioBuffer.thrown

\* 16-bit samples, and their bytes, low byte first
SampleInts == {-32768, -32767, -1, 0, 1, 255, 256, 257, 32767}
RECURSIVE LittleEndian(_)
LittleEndian(samples) ==
  IF samples = <<>> THEN <<>>
  ELSE <<Head(samples) % 256, (Head(samples) \div 256) % 256>> \o LittleEndian(Tail(samples))

Within(a, b, tolerance) == a - b <= tolerance /\ b - a <= tolerance

\* the buffer is the PCM of srcBytes: mono, 24000 Hz, one frame for every two
\* bytes, sample k the signed 16-bit little-endian value of its two bytes over
\* 32768, and any samples encoded into srcBytes come back within 1/32768
IsPcmOf(buffer, bytes) ==
  LET n == Len(bytes) \div 2
  IN /\ buffer.numberOfChannels = 1
     /\ buffer.sampleRate = 24000
     /\ buffer.length = n
     /\ buffer.duration = <<n, 24000>>
     /\ Len(buffer.channelData) = n
     /\ \A k \in 0..(n - 1) :
          LET sample == buffer.channelData[k + 1]
          IN /\ sample[2] = 32768
             /\ sample[1] \in -32768..32767
             /\ sample[1] % 256 = bytes[2 * k + 1]
             /\ (sample[1] \div 256) % 256 = bytes[2 * k + 2]
             /\ -sample[2] <= sample[1] /\ sample[1] <= sample[2]
     /\ \A samples \in [1..n -> SampleInts] :
          LittleEndian(samples) = bytes =>
            \A k \in 1..n : Within(buffer.channelData[k][1], samples[k], 1)

\* C23 as stated: every payload of 2n bytes decodes to the n frames of its PCM
C23_Original ==
  (decDone /\ WellFormed /\ Len(srcBytes) % 2 = 0) =>
    ~audioBuffer.thrown /\ IsPcmOf(audioBuffer.val, srcBytes)

\* C23: a payload of 2n bytes, n >= 1, decodes to a mono 24000 Hz buffer of
\* exactly n frames, sample i the signed 16-bit little-endian value of bytes 2i
\* and 2i+1 over 32768, in [-1, 1], with duration n/24000; encoded samples
\* come back within 1/32768.  A payload of no bytes makes decode fail.
C23_DecodesPcm ==
  (decDone /\ WellFormed /\ Len(srcBytes) % 2 = 0) =>
    IF srcBytes = <<>> THEN audioBuffer.thrown
    ELSE ~audioBuffer.thrown /\ IsPcmOf(audioBuffer.val, srcBytes)

\* the samples 32767 and -32768, written without padding
C23_Witness ==
  /\ decDone /\ srcForm = "bare" /\ srcBytes = LittleEndian(<<32767, -32768>>)
  /\ payload = <<"/", "3", "8", "A", "g", "A">>
  /\ ~audioBuffer.thrown
  /\ audioBuffer.val.channelData = <<<<32767, 32768>>, <<-32768, 32768>>>>

(***************************************************************************)
(* Properties of playback and export together (specification PlaybackSpec).*)
(***************************************************************************)
\* C24: interactive playback is stopped when a video export starts: while
\* isGeneratingVideo is true no interactive narration source is playing on the
\* shared audio context.
C24_PlaybackStoppedForExport == isGeneratingVideo => ~isPlaying

(***************************************************************************)
(* Properties of the published slides (specification Spec).  The slide     *)
(* objects of a run are the elements of newSlides, numbered by their place *)
(* in it; an array of slides is the sequence of the numbers of its objects.*)
(***************************************************************************)
\* [...newSlides] (lines 71, 86, 93, 110, 117): a new array whose elements are
\* the slide objects of newSlides themselves
SpreadOf(ns) == [k \in 1..Len(ns) |-> k]

\* the field values read through the array refs when the objects of the run
\* have the values ns
ReadThrough(refs, ns) == [k \in 1..Len(refs) |-> ns[refs[k]]]

\* C25: a published snapshot is immutable: when a later unit of work of the
\* run completes, the slides of the array published before it still have the
\* field values they were published with.
C25_SnapshotsImmutable ==
  [][(pc # "none" /\ slides # <<>>) =>
       ReadThrough(SpreadOf(slides), newSlides') = slides]_vars

(***************************************************************************)
(* Properties of the pacing, the order of the requests and the progress of *)
(* generateSlides (specification Spec).                                    *)
(***************************************************************************)
\* the first request of unit r.idx of its stage
FirstOfUnit(r) == r.attempt = 1 /\ r.fn \in {"translate", "image", "speech"}

\* the fixed delay is pending
Pacing == timer = [kind |-> "pace", ms |-> PaceDelay]

\* C26: in each stage the delay of 2000 lies between the end of one unit and
\* the first request of the next, also after a unit that failed or was
\* skipped, and there is no delay after the last unit of a stage.
C26_PaceBetweenUnits ==
  [][/\ \A r \in outstanding' \ outstanding :
          FirstOfUnit(r) =>
            IF r.idx = 0 THEN timer.kind # "pace"
            ELSE Pacing /\ pc \in {"pace1", "pace2", "pace3"} /\ i = r.idx - 1
     /\ timer'.kind = "pace" =>
          /\ Pacing' /\ outstanding' = {}
          /\ pc' \in {"pace1", "pace2", "pace3"}
          /\ i' < Len(lines') - 1]_vars

\* the image of the first of two slides has failed, and the delay before the
\* image of the second is pending
C26_Witness ==
  /\ pc = "pace2" /\ Pacing /\ i = 0
  /\ last.fn = "image" /\ last.o = Rejected /\ slides[1].imageUrl = Null

\* the stage a generation state belongs to
StageOf(g) ==
  CASE g \in {"translating", "explaining"} -> 1
    [] g = "imaging" -> 2
    [] g = "narrating" -> 3
    [] OTHER -> 0

\* C27: the requests of a run are issued in this order: segment by segment,
\* translate and then, if enabled, explain; every request of stage 1 before
\* every image request, every image request before every speech request; in
\* stages 2 and 3 the slides in increasing order; and the image request of
\* slide i carries the script stored for slide i in stage 1.
C27_RequestOrder ==
  [][/\ \A r \in outstanding' \ outstanding :
          /\ r.fn # "segment" =>
                /\ r.idx = i'
                /\ StageOf(generationState') = StageOf(generationState) => i' >= i
                /\ (r.attempt = 1 /\ r.fn \in {"translate", "image"}) =>
                     IF StageOf(generationState') = StageOf(generationState)
                     THEN i' = i + 1 ELSE i' = 0
          /\ r.fn = "translate" =>
                /\ StageOf(generationState') = 1
                /\ Len(newSlides') = r.idx
                /\ issued' \cap {"image", "speech"} = {}
                /\ r.arg = lines'[r.idx + 1]
          /\ r.fn = "explain" =>
                /\ autoGenerateExplanation /\ generationState' = "explaining"
                /\ Len(newSlides') = r.idx
                /\ "translate" \in issued /\ issued' \cap {"image", "speech"} = {}
                /\ r.attempt = 1 => last'.fn = "translate" /\ i = r.idx
                /\ r.arg = lines'[r.idx + 1]
          /\ r.fn = "image" =>
                /\ generationState' = "imaging"
                /\ Len(newSlides') = Len(lines')
                /\ "speech" \notin issued'
                /\ r.arg = newSlides'[r.idx + 1].english
                /\ r.script = newSlides'[r.idx + 1].script
          /\ r.fn = "speech" =>
                /\ generationState' = "narrating"
                /\ Len(newSlides') = Len(lines')
                /\ "image" \in issued
                /\ r.arg = newSlides'[r.idx + 1].script
     /\ pc # "none" =>
          /\ Len(newSlides') >= Len(newSlides)
          /\ \A k \in 1..Len(newSlides) :
               /\ newSlides'[k].script = newSlides[k].script
               /\ newSlides'[k].english = lines'[k]]_vars

\* the image of the second slide is requested with that slide's script, which
\* is not the script of the first slide
C27_Witness ==
  \E r \in outstanding :
    /\ r.fn = "image" /\ r.idx = 1
    /\ r.script = newSlides[2].script /\ r.script # newSlides[1].script

\* the labels of the three stages that work unit by unit
StageLabels ==
  {"Translating", "Translating & Explaining", "Generating Images", "Generating Narration"}

\* C28: in each stage the progress starts at current = 0 and goes up by
\* exactly 1 after every unit, failed ones included; 0 <= current <= total
\* always; current counts the finished units of the stage and total its
\* units, so that it is total when the stage ends with its last unit; and
\* there is no progress once the run is done or in error.
C28_ProgressCounts ==
  [][/\ generationProgress'.current \in 0..generationProgress'.total
     /\ generationState' \in {"idle", "done", "error"} => generationProgress' = NoProgress
     /\ generationProgress'.step \in StageLabels =>
          /\ generationProgress'.total = Len(lines')
          /\ generationProgress'.current =
               IF StageOf(generationState') = 1 THEN Len(newSlides') ELSE i'
          /\ IF generationProgress.step = generationProgress'.step
             THEN \/ generationProgress' = generationProgress
                  \/ /\ generationProgress'.current = generationProgress.current + 1
                     /\ generationProgress'.total = generationProgress.total
             ELSE generationProgress'.current = 0
     /\ (generationProgress.step \in StageLabels
           /\ generationProgress'.step # generationProgress.step) =>
          CASE StageOf(generationState) = 1 -> Len(newSlides') = generationProgress.total
            [] StageOf(generationState) = 2 ->
                 /\ pc = "image" /\ i = generationProgress.total - 1
                 /\ generationProgress.current = generationProgress.total - 1
            [] StageOf(generationState) = 3 -> i' = generationProgress.total]_vars

\* the image of the first of two slides has failed and is counted: the
\* progress is 1 of 2 while the image of the second is requested
C28_Witness ==
  /\ generationProgress = Progress(1, 2, "Generating Images")
  /\ pc = "image" /\ i = 1 /\ newSlides[1].imageUrl = Null

(***************************************************************************)
(* Properties of the lesson's context (specification ContextSpec).         *)
(***************************************************************************)
\* the operations that take the continuity context
TakesContext == {"translate", "explain", "image"}

\* C29: every translate, explain and image request made for a lesson, by the
\* pipeline or by a regenerate handler, carries the context text with which
\* the generation of that lesson was started.
C29_SameContext ==
  [][/\ (pc = "none" /\ pc' = "segment") => capturedContext' = contextText
     /\ \A r \in outstanding' \ outstanding :
          r.fn \in TakesContext => r.context = capturedContext'
     /\ \A r \in regens' \ regens :
          r.kind \in TakesContext =>
            slides # <<>> /\ r.context = capturedContext /\ capturedContext' = capturedContext
     /\ capturedContext' # capturedContext =>
          (pc = "none" /\ pc' = "segment") \/ slides' = <<>>]_vars

\* a lesson started with the context of the previous chapter: the image of a
\* slide is being regenerated with that context
C29_Witness ==
  /\ capturedContext = "previous chapter"
  /\ generationState = "done"
  /\ \E r \in regens : r.kind = "image" /\ r.context = "previous chapter"

(***************************************************************************)
(* Properties of the text layer (specification TextSpec).                  *)
(***************************************************************************)
\* the font sizes 48, 46, ..., 10
FontSizes == {z \in 10..48 : z % 2 = 0}

\* the height, in tenths, of the slide's texts wrapped at a size: the source
\* lines at 1.3 times their font size, the translation lines at 1.5 times
\* theirs, and the gap of 25 between the two blocks
HeightAt(size) ==
  LET source == calculateLines(size, cacheSlide.english, MAX_TEXT_WIDTH)
      translation == calculateLines(HindiFontSize(size), cacheSlide.hindi, MAX_TEXT_WIDTH)
  IN Len(source) * 13 * size + Len(translation) * 15 * HindiFontSize(size)
       + (IF translation # <<>> THEN 250 ELSE 0)

\* size is the largest font size at which the texts fit within height
LargestFit(size, height) ==
  /\ HeightAt(size) <= Tenths(height)
  /\ \A z \in FontSizes : z > size => ~(HeightAt(z) <= Tenths(height))

\* C30 as stated: the size selected is the largest at which the texts fit
\* within the frame height minus 160.
C30_Original ==
  cacheDone =>
    \A size \in FontSizes :
      LargestFit(size, CanvasHeight - 160) => textCache.finalEnglishFontSize = size

\* C30: the size selected is the largest of 48, 46, ..., 10 at which the
\* wrapped source lines, the wrapped translation lines and the gap fit within
\* the frame height minus 80; every larger size does not fit.
C30_LargestFit ==
  cacheDone =>
    \A size \in FontSizes :
      LargestFit(size, CanvasHeight - 80) =>
        /\ textCache.finalEnglishFontSize = size
        /\ textCache.totalTextHeight = HeightAt(size)

\* eight source lines and eight translation lines need 1004.2 at size 48 and
\* 971.4 at size 46, which is selected
C30_Witness ==
  /\ cacheDone
  /\ cacheSlide = [english |-> [k \in 1..8 |-> 36], hindi |-> [k \in 1..8 |-> 36]]
  /\ textCache.finalEnglishFontSize = 46 /\ textCache.totalTextHeight = 9714
  /\ Len(textCache.englishLines) = 8 /\ Len(textCache.hindiLines) = 8

\* no size of the search fits
NothingFits == \A z \in FontSizes : ~(HeightAt(z) <= MAX_TEXT_HEIGHT)

\* C31: the search ends with one of its at most 20 sizes; when no size fits
\* it ends with the smallest, 10, and that size's line breaks, so that the
\* layer draws every line of the source text and of the translation.
C31_FallsBackToSmallest ==
  cacheDone =>
    /\ Cardinality(FontSizes) <= 20
    /\ textCache.finalEnglishFontSize \in FontSizes
    /\ NothingFits =>
         /\ textCache.finalEnglishFontSize = 10
         /\ textCache.englishLines = calculateLines(10, cacheSlide.english, MAX_TEXT_WIDTH)
         /\ textCache.hindiLines =
              calculateLines(HindiFontSize(10), cacheSlide.hindi, MAX_TEXT_WIDTH)
    /\ textCache.englishLines # <<>>
    /\ cacheSlide.hindi # <<0>> => textCache.hindiLines # <<>>

\* the draws of the frame renderLoop rendered last
FrameDraws == IF lastFrame = NoFrame THEN {} ELSE {lastFrame.draws[k] : k \in DOMAIN lastFrame.draws}

\* a draw inside the first 1.5 seconds of the first slide
InFadeIn(d) == d.index = 0 /\ d.elapsedSinceSlideStart < WatermarkFadeDuration

\* a draw inside the last 1.5 seconds of the last slide
InFadeOut(d) ==
  /\ d.index = Len(slides) - 1
  /\ d.elapsedSinceSlideStart > d.slideDuration - WatermarkFadeDuration

\* the opacity lies in [0, 1]
AlphaInRange(d) == d.watermarkAlpha[1] >= 0 /\ d.watermarkAlpha[1] <= d.watermarkAlpha[2]

C33_OneSharedContext ==
  /\ sharedAudioContext.id <= 1
  /\ ~sharedAudioContext.closed
  /\ (epc # "idle" \/ base64AudioData # Null \/ sounding > 0) =>
       sharedAudioContext = [id |-> 1, closed |-> FALSE]

\* the lesson whose first slide has no narration, so that no context exists
\* when it is shown: the player plays the second slide while an export
\* renders, both on the first context
C33_Witness ==
  /\ slides # <<>> /\ slides[1].audioData = Null
  /\ sourceNodeRef.on /\ sounding = 1
  /\ epc = "render" /\ Len(sources) > 0
  /\ sharedAudioContext = [id |-> 1, closed |-> FALSE]

\* a step of generateSlides in its image or narration stage: no regenerate
\* action starts or returns in it, and the lesson stays
RunStepLate ==
  /\ generationState \in {"imaging", "narrating"}
  /\ regens' = regens
  /\ Len(slides') = Len(slides)

\* C34: what a regenerate action wrote to a slide stays in the published
\* slides until a later regenerate action on that slide or a new lesson or
\* generation: a step of generateSlides in its image or narration stage
\* changes no translation and no script of a published slide, no narration
\* while it makes images and no image while it makes narrations.
C34_RegeneratedValueKept ==
  [][RunStepLate =>
       \A k \in DOMAIN slides :
         /\ slides'[k].hindi = slides[k].hindi
         /\ slides'[k].script = slides[k].script
         /\ generationState = "imaging" => slides'[k].audioData = slides[k].audioData
         /\ generationState = "narrating" => slides'[k].imageUrl = slides[k].imageUrl]_vars

\* the fields a regenerate action of kind kind writes
RegeneratedFields(kind) ==
  CASE kind = "image" -> {"imageUrl"}
    [] kind = "translate" -> {"hindi"}
    [] OTHER -> {"script", "audioData"}

\* C35: a regenerate action changes only the slide it was started for and only
\* the fields it regenerates; its result is never applied to a slide of
\* another lesson, whatever was done while its request was in flight.  The
\* slide it was started for has the id and the source text of the request, in
\* the lesson generated with the context of the request.
C35_RegenerateOnlyItsSlide ==
  [][\A r \in regens \ regens' :
       /\ Len(slides') = Len(slides)
       /\ \A k \in DOMAIN slides :
            /\ slides'[k] # slides[k] =>
                 /\ slides[k].id = r.id /\ slides[k].english = r.english
                 /\ r.kind # "speech" => r.context = capturedContext
            /\ \A f \in DOMAIN slides[k] \ RegeneratedFields(r.kind) :
                 slides'[k][f] = slides[k][f]]_vars

\* C37: every export that starts ends with isGeneratingVideo false and
\* videoGenerationProgress 0, whether it succeeds, finds the format
\* unsupported or fails at any step, a render tick included, as long as the
\* audio clock keeps advancing.
C37_ExportEnds ==
  isGeneratingVideo ~> (~isGeneratingVideo /\ videoGenerationProgress = Zero)

\* C36: at most one export is in progress at a time.  While an export runs
\* (isGeneratingVideo) or when there are no slides, handleDownloadVideo
\* returns at once: no export starts, the recorder and the audio sources of
\* the running export stay, and with no slides nothing of the export changes.
\* An export is in progress exactly while isGeneratingVideo is set.
C36_OneExportAtATime ==
  /\ [][(isGeneratingVideo \/ slides = <<>>) =>
         /\ ~(epc' = "fonts" /\ epc # "fonts")
         /\ recorder' = "none" => recorder = "none"
         /\ Len(sources') >= Len(sources)
         /\ lastFrame' = NoFrame => lastFrame = NoFrame
         /\ slides = <<>> => UNCHANGED exportVars]_vars
  /\ [](isGeneratingVideo <=> epc # "idle")

\* a second export of the lesson is rendering, its audio scheduled, and the
\* handler cannot start a third
C36_Witness ==
  /\ isGeneratingVideo /\ epc = "render"
  /\ probe # NoProbe /\ probe.old
  /\ recorder = "recording" /\ Len(sources) > 0 /\ lastFrame # NoFrame
  /\ ~ENABLED HandleDownloadVideo

\* when the narration started as source j begins and ends on the audio clock
NarrationStart(j) == sources[j].when
NarrationEnd(j) ==
  sources[j].when + getAudioBufferFromBase64(slides[sources[j].index + 1].audioData).val

\* when the SlideEvent of the slide of source j ends on the audio clock
SlideEnd(j) ==
  LET e == timeline[2 * sources[j].index + 1]
  IN audioStartOffset + e.startTime + e.duration

\* C38: the narration of a slide ends no later than the slide's SlideEvent,
\* for every length of the decoded audio; no two narrations overlap; and every
\* SlideEvent lasts more than 1.0 seconds, so that totalDuration > 0.
C38_NarrationFitsSlide ==
  /\ AudioScheduled =>
       /\ \A j \in 1..Len(sources) : NarrationEnd(j) <= SlideEnd(j)
       /\ \A j, k \in 1..Len(sources) :
            j # k => (NarrationEnd(j) <= NarrationStart(k) \/ NarrationEnd(k) <= NarrationStart(j))
  /\ TimelineBuilt =>
       /\ \A k \in 1..Len(timeline) : timeline[k].type = "slide" => timeline[k].duration > 10
       /\ totalDuration > 0

\* narrations of 1.0, 0.3 and 4.0 seconds in slides of 1.5, 3.0 and 4.5
C38_Witness ==
  /\ epc = "render"
  /\ AudioOf(slides) = <<"pcm10", "pcm03", "pcm40">>
  /\ slideDurations = <<15, 30, 45>> /\ totalDuration = 90
  /\ Len(sources) = 3
  /\ NarrationEnd(3) = audioStartOffset + 85

\* C39: in the player, under every interleaving of play, stop, changes of the
\* audio data and ends of sources: at most one source sounds at a time, and
\* it is the one the hook refers to; the completion callback is called only
\* in a step in which the source the hook refers to was sounding and ended by
\* itself; and the buffer held and the decoding awaited are always those of
\* the current audio data, never of data that was replaced.
C39_PlayerConsistent ==
  /\ [](sounding <= 1 /\ (sounding = 1 <=> sourceNodeRef.on) /\ (isPlaying <=> sourceNodeRef.on))
  /\ [][onEndedFired' => (sourceNodeRef.on /\ sounding = 1 /\ isPlaying)]_vars
  /\ [][(sounding' < sounding /\ ~sourceNodeRef'.on /\ lessonState' # lessonState
           /\ lessonState' = "paused") => ~onEndedFired']_vars
  /\ [](audioBufferRef # Null => audioBufferRef = base64AudioData)
  /\ [](pendingDecode # Null => pendingDecode = base64AudioData /\ isLoading)

\* the narration of the first slide has ended by itself while the lesson
\* plays: the callback has run, the second slide is shown and its audio is
\* being decoded, nothing sounds
C39_Witness ==
  /\ onEndedFired /\ lessonState = "playing"
  /\ currentSlideIndex = 1 /\ sounding = 0 /\ ~isPlaying
  /\ base64AudioData = "pcm10" /\ pendingDecode = "pcm10" /\ audioBufferRef = Null
  /\ slides[1].audioData = "pcm05"

\* every slide of the lesson has a narration that decodes
AllNarrated ==
  \A k \in 1..Len(slides) : HasAudio(slides[k]) /\ ~Undecodable(slides[k])

\* the index moves only forward by one, when a narration has ended
C40_AdvancesByOne ==
  /\ [][(lessonState = "playing" /\ currentSlideIndex' # currentSlideIndex) =>
          (onEndedFired' /\ currentSlideIndex' = currentSlideIndex + 1)]_vars
  /\ [][(onEndedFired' /\ currentSlideIndex < Len(slides) - 1) =>
          currentSlideIndex' = currentSlideIndex + 1]_vars
  /\ [](currentSlideIndex \in 0..(Len(slides) - 1))

\* C40: a generated lesson that is started and left playing shows its slides
\* in increasing order, the index going up by exactly one each time a
\* narration ends and staying within [0, slides.length - 1], and lessonState
\* eventually becomes finished.
C40_LessonFinishes ==
  /\ C40_AdvancesByOne
  /\ (lessonState = "playing" ~> lessonState = "finished")

\* the same for the lessons whose slides all have a narration that decodes
C40_NarratedLessonFinishes ==
  /\ C40_AdvancesByOne
  /\ ((lessonState = "playing" /\ AllNarrated) ~> lessonState = "finished")

====
